---- MODULE Spec2Model ----
(***************************************************************************)
(* A model of the hospital registry pipeline of                            *)
(* src/hospitals/scripts/merge_data.py (class GeocodingPipeline):          *)
(* identity keys, ingestion of the source files with pruning, the          *)
(* geocoding loop, deduplication and the persistence of the registry.      *)
(*                                                                         *)
(* Text is modelled by TLA+ strings over ASCII letters, digits, the space  *)
(* and a few punctuation characters.  Coordinates are integers counting    *)
(* millionths of a degree, 0 standing for the float 0.0 (unset).           *)
(***************************************************************************)
EXTENDS Integers, Sequences, FiniteSets, TLC

VARIABLES
    pc,        \* position of the run, or "key" in the key experiments
    kA,        \* key experiment: the first (name, pin, city) input
    kB,        \* key experiment: the second input, or the edited first one
    kKeyA,     \* generate_unique_id of kA, NoKey before it is computed
    kKeyB,     \* generate_unique_id of kB
    kEdits,    \* edits applied to kB.name so far
    dReg,      \* deduplication experiment: the registry deduplicated
    dSpatial,  \* the registry after its first spatial pass
    dOnce,     \* the registry after deduplicate_data
    dTwice,    \* the registry after deduplicate_data, run again at once
    set_order, \* how list(set(...)) lists the companies in this process, once
               \* deduplicate_data has merged two records and built such a list
    apiKey,    \* whether GMAPS_API_KEY is set in the environment of the run
    outFile,   \* OUTPUT_FILE (excluded.json)
    tempFile,  \* TEMP_FILE (excluded_processing.tmp.json)
    dir,       \* the source files of DATA_DIR, in the order glob lists them
    data,      \* self.data: the registry, a dict in insertion order
    fi,        \* merge_sources: the file being read
    ri,        \* merge_sources: the record being processed
    active,    \* merge_sources: active_source_uids
    before,    \* the uids of self.data when merge_sources was entered
    pending,   \* run: the uids of pending_items not yet processed
    best_result,          \* fetch_geocoding: best_result
    api_hits,             \* self.api_hits
    places_api_enabled,   \* self.places_api_enabled
    city_coords_cache,    \* self.city_coords_cache
    called,    \* whether the run has made an outbound call
    failed,    \* the uids for which fetch_geocoding returned no coordinates in this run
    reply,     \* the answer to the last outbound call, and what fetch_geocoding returned on it
    is_final,  \* save_to_disk: is_final
    prevOut,   \* OUTPUT_FILE as it was when save_to_disk was entered
    faults,    \* failures of the file system injected so far
    runs       \* runs of the pipeline started so far

dedupVars == <<dReg, dSpatial, dOnce, dTwice, set_order>>
keyVars == <<kA, kB, kKeyA, kKeyB, kEdits, dedupVars>>
fileVars == <<outFile, tempFile, prevOut, faults>>
mergeVars == <<fi, ri, active, before>>
geoVars == <<pending, best_result, api_hits, places_api_enabled, city_coords_cache, called,
            failed, reply>>
envVars == <<apiKey, dir, runs>>
vars == <<pc, keyVars, fileVars, mergeVars, geoVars, envVars, data, is_final>>

------------------------------------------------------------------------------
(* Strings *)

UpperAlpha == "ABCDEFGHIJKLMNOPQRSTUVWXYZ"
LowerAlpha == "abcdefghijklmnopqrstuvwxyz"
DigitChars == "0123456789"

CharAt(s, i) == SubSeq(s, i, i)

\* position of the one-character string c in alpha, 0 when absent
IndexIn(c, alpha) ==
    IF \E i \in 1..Len(alpha) : CharAt(alpha, i) = c
    THEN CHOOSE i \in 1..Len(alpha) : CharAt(alpha, i) = c
    ELSE 0

IsUpperChar(c) == IndexIn(c, UpperAlpha) > 0
IsLowerChar(c) == IndexIn(c, LowerAlpha) > 0
IsDigitChar(c) == IndexIn(c, DigitChars) > 0

UpperChar(c) ==
    LET i == IndexIn(c, LowerAlpha) IN
    IF i > 0 THEN CharAt(UpperAlpha, i) ELSE c

LowerChar(c) ==
    LET i == IndexIn(c, UpperAlpha) IN
    IF i > 0 THEN CharAt(LowerAlpha, i) ELSE c

\* str.upper()
RECURSIVE StrUpper(_)
StrUpper(s) ==
    IF s = "" THEN ""
    ELSE IF Len(s) = 1 THEN UpperChar(s)
    ELSE StrUpper(SubSeq(s, 1, Len(s) \div 2))
         \o StrUpper(SubSeq(s, Len(s) \div 2 + 1, Len(s)))

\* str.lower()
RECURSIVE StrLower(_)
StrLower(s) ==
    IF s = "" THEN ""
    ELSE IF Len(s) = 1 THEN LowerChar(s)
    ELSE StrLower(SubSeq(s, 1, Len(s) \div 2))
         \o StrLower(SubSeq(s, Len(s) \div 2 + 1, Len(s)))

\* re.sub(r"[^A-Z0-9]", "", s)
RECURSIVE SubNonUpperAlnum(_)
SubNonUpperAlnum(s) ==
    IF s = "" THEN ""
    ELSE IF Len(s) = 1 THEN (IF IsUpperChar(s) \/ IsDigitChar(s) THEN s ELSE "")
    ELSE SubNonUpperAlnum(SubSeq(s, 1, Len(s) \div 2))
         \o SubNonUpperAlnum(SubSeq(s, Len(s) \div 2 + 1, Len(s)))

RECURSIVE LStrip(_)
LStrip(s) ==
    IF s = "" THEN "" ELSE IF Head(s) = " " THEN LStrip(Tail(s)) ELSE s

RECURSIVE RStrip(_)
RStrip(s) ==
    IF s = "" THEN ""
    ELSE IF CharAt(s, Len(s)) = " " THEN RStrip(SubSeq(s, 1, Len(s) - 1)) ELSE s

\* str.strip()
Strip(s) == RStrip(LStrip(s))

\* str.isdigit()
IsDigitStr(s) == s # "" /\ \A i \in 1..Len(s) : IsDigitChar(CharAt(s, i))

------------------------------------------------------------------------------
(* Identity keys *)

\* the pin is used as it comes
generate_unique_id_NoStrip(name, pin, city) ==
    LET clean_name == SubNonUpperAlnum(StrUpper(name))
        clean_pin == pin
    IN  IF clean_pin = "" \/ Len(clean_pin) < 6 \/ StrLower(clean_pin) = "nan"
        THEN clean_name \o "_" \o SubNonUpperAlnum(StrUpper(city))
        ELSE clean_name \o "_" \o clean_pin

generate_unique_id(name, pin, city) ==
    LET clean_name == SubNonUpperAlnum(StrUpper(name))
        clean_pin == Strip(pin)
    IN  IF clean_pin = "" \/ Len(clean_pin) < 6 \/ StrLower(clean_pin) = "nan"
        THEN clean_name \o "_" \o SubNonUpperAlnum(StrUpper(city))
        ELSE clean_name \o "_" \o clean_pin

------------------------------------------------------------------------------
(* The registry: self.data, a dict from uid to record, in insertion order *)

None == ""

\* a key not computed yet
NoKey == "?"

DictHas(d, uid) == \E i \in 1..Len(d) : d[i].uid = uid

DictIndex(d, uid) == CHOOSE i \in 1..Len(d) : d[i].uid = uid

DictGet(d, uid) == d[DictIndex(d, uid)]

DictKeys(d) == {d[i].uid : i \in 1..Len(d)}

\* d[uid] = rec: an existing key keeps its place, a new one goes last
DictSet(d, uid, rec) ==
    IF DictHas(d, uid) THEN [d EXCEPT ![DictIndex(d, uid)] = rec]
    ELSE Append(d, rec)

RECURSIVE DictDelAll(_, _)
\* del d[uid] for every uid of uids
DictDelAll(d, uids) ==
    IF d = <<>> THEN <<>>
    ELSE IF Head(d).uid \in uids THEN DictDelAll(Tail(d), uids)
    ELSE <<Head(d)>> \o DictDelAll(Tail(d), uids)

SeqContains(seq, x) == \E i \in 1..Len(seq) : seq[i] = x

SeqToSet(seq) == {seq[i] : i \in 1..Len(seq)}

\* a persisted item held in memory under uid
AsRecord(item, uid, needs) ==
    [uid |-> uid, name |-> item.name, address |-> item.address,
     city |-> item.city, state |-> item.state, pincode |-> item.pincode,
     excluded_by |-> item.excluded_by, lat |-> item.lat, lng |-> item.lng,
     accuracy |-> item.accuracy, needs_update |-> needs]

RECURSIVE LoadItems_Flagged(_, _)
\* the loaded records are flagged for an update
LoadItems_Flagged(d, items) ==
    IF items = <<>> THEN d
    ELSE LET item == Head(items)
             uid == generate_unique_id(item.name, item.pincode, item.city)
         IN  LoadItems_Flagged(DictSet(d, uid, AsRecord(item, uid, TRUE)), Tail(items))

RECURSIVE LoadItems(_, _)
LoadItems(d, items) ==
    IF items = <<>> THEN d
    ELSE LET item == Head(items)
             uid == generate_unique_id(item.name, item.pincode, item.city)
         IN  LoadItems(DictSet(d, uid, AsRecord(item, uid, FALSE)), Tail(items))

\* self.data after load_existing_data on a fresh pipeline, lines 87-104: a file
\* that is not whole JSON makes json.load raise, and nothing is loaded
load_existing_data(file) ==
    IF ~file.exists \/ ~file.complete THEN <<>> ELSE LoadItems(<<>>, file.items)

------------------------------------------------------------------------------
(* Ingestion *)

\* the company is appended whether listed or not
AppendIfAbsent_Always(seq, x) == Append(seq, x)

\* if company not in existing["excluded_by"]: existing["excluded_by"].append(company)
AppendIfAbsent(seq, x) == IF SeqContains(seq, x) THEN seq ELSE Append(seq, x)

\* the stored text of a HIGH record is not preserved: lines 172-177 are missing
_process_source_record_NoHigh(d, record, company) ==
    LET src_name == record.name
        src_addr == record.address
        src_city == record.city
        src_state == record.state
        src_pin == record.pin
        uid == generate_unique_id(src_name, src_pin, src_city)
    IN  IF Strip(src_name) = "" THEN [uid |-> None, data |-> d]
        ELSE IF Strip(src_name) = "Hospital Name" \/ Strip(src_pin) = "Pincode"
        THEN [uid |-> None, data |-> d]
        ELSE IF DictHas(d, uid)
        THEN LET existing == DictGet(d, uid)
                 old_addr == Strip(existing.address)
                 new_addr == Strip(src_addr)
                 has_address_changed == old_addr # new_addr /\ Len(new_addr) > 5
                 merged == AppendIfAbsent(existing.excluded_by, company)
             IN  IF has_address_changed
                 THEN [uid |-> uid,
                       data |-> DictSet(d, uid,
                                  [existing EXCEPT !.address = src_addr,
                                                   !.city = src_city,
                                                   !.state = src_state,
                                                   !.pincode = src_pin,
                                                   !.needs_update = TRUE,
                                                   !.excluded_by = merged])]
                 ELSE [uid |-> uid,
                       data |-> DictSet(d, uid, [existing EXCEPT !.excluded_by = merged])]
        ELSE [uid |-> uid,
              data |-> DictSet(d, uid,
                         [uid |-> uid, name |-> src_name, address |-> src_addr,
                          city |-> src_city, state |-> src_state, pincode |-> src_pin,
                          excluded_by |-> <<company>>, lat |-> 0, lng |-> 0,
                          accuracy |-> "Pending", needs_update |-> TRUE])]

\* any address that differs counts as changed, however short
has_address_changed_AnyLength(old_addr, new_addr) == old_addr # new_addr

\* has_address_changed of _process_source_record, line 185
has_address_changed(old_addr, new_addr) == old_addr # new_addr /\ Len(new_addr) > 5

\* [uid, data]: the value returned (None for a skipped record) and self.data after
_process_source_record(d, record, company) ==
    LET src_name == record.name
        src_addr == record.address
        src_city == record.city
        src_state == record.state
        src_pin == record.pin
        uid == generate_unique_id(src_name, src_pin, src_city)
    IN  IF Strip(src_name) = "" THEN [uid |-> None, data |-> d]
        ELSE IF Strip(src_name) = "Hospital Name" \/ Strip(src_pin) = "Pincode"
        THEN [uid |-> None, data |-> d]
        ELSE IF DictHas(d, uid)
        THEN LET existing == DictGet(d, uid)
                 old_addr == Strip(existing.address)
                 new_addr == Strip(src_addr)
                 merged == AppendIfAbsent(existing.excluded_by, company)
             IN  IF existing.accuracy = "HIGH"
                 THEN [uid |-> uid,
                       data |-> DictSet(d, uid, [existing EXCEPT !.excluded_by = merged])]
                 ELSE IF has_address_changed(old_addr, new_addr)
                 THEN [uid |-> uid,
                       data |-> DictSet(d, uid,
                                  [existing EXCEPT !.address = src_addr,
                                                   !.city = src_city,
                                                   !.state = src_state,
                                                   !.pincode = src_pin,
                                                   !.needs_update = TRUE,
                                                   !.excluded_by = merged])]
                 ELSE [uid |-> uid,
                       data |-> DictSet(d, uid, [existing EXCEPT !.excluded_by = merged])]
        ELSE [uid |-> uid,
              data |-> DictSet(d, uid,
                         [uid |-> uid, name |-> src_name, address |-> src_addr,
                          city |-> src_city, state |-> src_state, pincode |-> src_pin,
                          excluded_by |-> <<company>>, lat |-> 0, lng |-> 0,
                          accuracy |-> "Pending", needs_update |-> TRUE])]

\* A source file: the company of its name, its records, and fail: how many of
\* them are processed before reading or processing raises (0: json.load
\* itself raises), NoFail when nothing raises.
NoFail == -1

\* the records of file f that merge_sources processes
Processed(f) == IF f.fail = NoFail THEN Len(f.records) ELSE f.fail

RECURSIVE Advance_Abort(_, _, _)
\* the first file that raises ends the ingestion
Advance_Abort(files, f, r) ==
    IF f > Len(files) THEN <<f, r>>
    ELSE IF r <= Processed(files[f]) THEN <<f, r>>
    ELSE IF files[f].fail # NoFail THEN <<Len(files) + 1, 1>>
    ELSE Advance_Abort(files, f + 1, 1)

RECURSIVE Advance(_, _, _)
\* the next (file, record) to process from position (f, r) on: files whose
\* records are exhausted, or that raise there, are left (the except clause logs)
Advance(files, f, r) ==
    IF f > Len(files) THEN <<f, r>>
    ELSE IF r <= Processed(files[f]) THEN <<f, r>>
    ELSE Advance(files, f + 1, 1)

\* nothing is pruned
Prune_KeepAll(d, active_source_uids) == d

\* the pruning loop of merge_sources
Prune(d, active_source_uids) == DictDelAll(d, DictKeys(d) \ active_source_uids)

RECURSIVE IngestFrom(_, _, _, _, _)
\* the loops of merge_sources from position (f, r) on: self.data and
\* active_source_uids when they are over
IngestFrom(d, act, files, f, r) ==
    LET at == Advance(files, f, r) IN
    IF at[1] > Len(files) THEN [data |-> d, active |-> act]
    ELSE LET file == files[at[1]]
             got == _process_source_record(d, file.records[at[2]], file.company)
         IN  IngestFrom(got.data,
                        IF got.uid # None THEN act \cup {got.uid} ELSE act,
                        files, at[1], at[2] + 1)

\* self.data after merge_sources over the files that glob lists
merge_sources(d, files) ==
    IF files = <<>> THEN d
    ELSE LET got == IngestFrom(d, {}, files, 1, 1) IN Prune(got.data, got.active)

------------------------------------------------------------------------------
(* Geocoding: fetch_geocoding, one step per outbound call *)

SAVE_INTERVAL == 10

Coord(lat, lng) == [lat |-> lat, lng |-> lng]

Result(lat, lng, accuracy) == [lat |-> lat, lng |-> lng, accuracy |-> accuracy]

PendingResult == Result(0, 0, "Pending")

\* the answer of a call that gave no location: it raised, or its status or its
\* content was not what the step looks for
NoAnswer == Result(0, 0, "none")

\* the last call was answered and fetch_geocoding goes on
Answered(answer) == [answer |-> answer, returned |-> FALSE, ret |-> PendingResult]

\* the last call was answered and fetch_geocoding returned result
Returned(answer, result) == [answer |-> answer, returned |-> TRUE, ret |-> result]

\* the key of city_coords_cache: f"{city}|{state}".lower()
CityKey(city, state) == StrLower(city \o "|" \o state)

\* fetch_geocoding strips the record's city and state before it uses them
RecordCityKey(rec) == CityKey(Strip(rec.city), Strip(rec.state))

Cached(cache, key) == key \in DOMAIN cache

\* self.city_coords_cache[key] = value
CachePut(cache, key, value) ==
    [k \in DOMAIN cache \cup {key} |-> IF k = key THEN value ELSE cache[k]]

NoneLoc == [found |-> FALSE, lat |-> 0, lng |-> 0]

FoundLoc(loc) == [found |-> TRUE, lat |-> loc.lat, lng |-> loc.lng]

\* Strategy D and what follows it, lines 479-496: the city centre when the
\* cascade kept nothing, else the kept LOW result, else Pending
CityFallback(best, cache, key) ==
    LET city_loc == IF Cached(cache, key) THEN cache[key] ELSE NoneLoc IN
    IF (best.accuracy = "Pending" \/ best.lat = 0) /\ city_loc.found
    THEN Result(city_loc.lat, city_loc.lng, "APPROXIMATE")
    ELSE IF best.lat # 0 /\ best.lng # 0 THEN best
    ELSE PendingResult

\* the body of the geocoding loop of run, lines 819-838, on one record
ApplyResult(rec, result) ==
    LET r1 == IF result.lat # 0 /\ result.lng # 0
              THEN [rec EXCEPT !.lat = result.lat, !.lng = result.lng,
                               !.accuracy = result.accuracy, !.needs_update = FALSE]
              ELSE rec
        r2 == IF r1.accuracy = "Pending"
              THEN [r1 EXCEPT !.accuracy = IF r1.lat # 0 THEN "LOW" ELSE "Pending",
                              !.needs_update = FALSE]
              ELSE r1
        r3 == IF r2.accuracy \notin {"HIGH", "LOW"}
              THEN [r2 EXCEPT !.accuracy = IF r2.lat = 0 \/ r2.lng = 0
                                           THEN "Pending" ELSE @,
                              !.needs_update = FALSE]
              ELSE r2
    IN  r3

\* pending_items of run, lines 799-805, as uids in the order of self.data
RECURSIVE PendingItems(_)
PendingItems(d) ==
    IF d = <<>> THEN <<>>
    ELSE (IF Head(d).needs_update \/ Head(d).lat = 0 \/ Head(d).accuracy = "Pending"
          THEN <<Head(d).uid>> ELSE <<>>)
         \o PendingItems(Tail(d))

\* the outbound calls of fetch_geocoding, in the order of the cascade: the city
\* lookup, Strategy A, the autocomplete and the place details of Strategy B,
\* the two attempts of Strategy C
CallPositions == {"city", "places", "bb", "details", "addr1", "addr2"}

\* stands for timeout=None: a call made without the timeout argument waits as
\* long as the service is silent
NoTimeout == 0

\* the timeout, in seconds, that session.get is given at lines 225, 350, 293,
\* 257, 433 and 455
CallTimeout ==
    [city |-> 10, places |-> NoTimeout, bb |-> 10, details |-> 10,
     addr1 |-> NoTimeout, addr2 |-> NoTimeout]

\* the city is looked up whether its key is cached or not
FirstCall_Uncached(cache, key, enabled) == "city"

\* the first outbound call of fetch_geocoding for a record: the city lookup of
\* _get_city_location_bias unless cached, then Strategy A unless disabled
FirstCall(cache, key, enabled) ==
    IF ~Cached(cache, key) THEN "city"
    ELSE IF enabled THEN "places" ELSE "bb"

------------------------------------------------------------------------------
(* Deduplication *)

StrContains(s, w) == \E i \in 0..(Len(s) - Len(w)) : SubSeq(s, i + 1, i + Len(w)) = w

\* s.find(w), 0-based, for a w that s contains
StrFind(s, w) ==
    CHOOSE i \in 0..(Len(s) - Len(w)) :
        /\ SubSeq(s, i + 1, i + Len(w)) = w
        /\ \A h \in 0..(i - 1) : SubSeq(s, h + 1, h + Len(w)) # w

RECURSIVE StrRemove(_, _)
\* s.replace(w, "") for a non-empty w: the occurrences are taken out from the
\* left, one after the end of the other
StrRemove(s, w) ==
    IF ~StrContains(s, w) THEN s
    ELSE LET Cut(i) == SubSeq(s, 1, i) \o StrRemove(SubSeq(s, i + Len(w) + 1, Len(s)), w)
         IN  Cut(StrFind(s, w))

noise_words ==
    <<"hospital", "hospitals", "centre", "center", "clinic", "nursing", "home",
      "multispeciality", "multi", "speciality", "specialty", "superspeciality",
      "super", "health", "care", "healthcare", "medicare", "trauma", "maternity",
      "research", "institute", "memorial", "general", "diagnostic", "diagnostics",
      "foundation", "trust", "pvtltd", "pvt", "ltd">>

RECURSIVE RemoveWords(_, _)
\* text = text.replace(word, "") for each word in turn
RemoveWords(s, words) ==
    IF s = "" \/ words = <<>> THEN s
    ELSE RemoveWords(StrRemove(s, Head(words)), Tail(words))

RECURSIVE SubNonLowerAlnum(_)
\* re.sub(r"[^a-z0-9]", "", s)
SubNonLowerAlnum(s) ==
    IF s = "" THEN ""
    ELSE IF Len(s) = 1 THEN (IF IsLowerChar(s) \/ IsDigitChar(s) THEN s ELSE "")
    ELSE SubNonLowerAlnum(SubSeq(s, 1, Len(s) \div 2))
         \o SubNonLowerAlnum(SubSeq(s, Len(s) \div 2 + 1, Len(s)))

_normalize_for_match(text) ==
    IF text = "" THEN "" ELSE SubNonLowerAlnum(RemoveWords(StrLower(text), noise_words))

\* the length of the common run of a from i and b from j (0-based), within the bounds
CommonRun(a, i, ahi, b, j, bhi) ==
    CHOOSE k \in 0..(ahi - i) :
        /\ j + k <= bhi
        /\ SubSeq(a, i + 1, i + k) = SubSeq(b, j + 1, j + k)
        /\ \/ i + k = ahi
           \/ j + k = bhi
           \/ CharAt(a, i + k + 1) # CharAt(b, j + k + 1)

\* the length of the common run of a and b that ends before i and j (0-based)
CommonRunBack(a, i, alo, b, j, blo) ==
    CHOOSE k \in 0..(i - alo) :
        /\ blo + k <= j
        /\ SubSeq(a, i - k + 1, i) = SubSeq(b, j - k + 1, j)
        /\ \/ i - k = alo
           \/ j - k = blo
           \/ CharAt(a, i - k) # CharAt(b, j - k)

\* bpopular of SequenceMatcher(None, a, b), whose autojunk is on: in a b of
\* 200 characters or more, the characters that occur more than
\* len(b) // 100 + 1 times; they are taken out of b2j
bpopular(b) ==
    IF Len(b) < 200 THEN {}
    ELSE {c \in {CharAt(b, j) : j \in 1..Len(b)} :
              Cardinality({j \in 1..Len(b) : CharAt(b, j) = c}) > Len(b) \div 100 + 1}

\* the length of the common run of a from i and b from j made of characters
\* that b2j holds
IndexedRun(a, i, ahi, b, j, bhi, popular) ==
    LET Held(h) == /\ CharAt(a, i + h) = CharAt(b, j + h)
                   /\ CharAt(b, j + h) \notin popular
    IN  CHOOSE k \in 0..(ahi - i) :
            /\ j + k <= bhi
            /\ \A h \in 1..k : Held(h)
            /\ \/ i + k = ahi
               \/ j + k = bhi
               \/ ~Held(k + 1)

\* SequenceMatcher.find_longest_match(alo, ahi, blo, bhi): the longest block
\* of characters that b2j holds, of those the one starting earliest in a, and
\* of those earliest in b; the block is then extended on each end as far as
\* the characters agree, popular or not
LongestMatch(a, alo, ahi, b, blo, bhi) ==
    LET Extended(i, j, k) ==
            LET Widened(back, on) == <<i - back, j - back, back + k + on>>
            IN  Widened(CommonRunBack(a, i, alo, b, j, blo),
                        CommonRun(a, i + k, ahi, b, j + k, bhi))
        Longest(starts, popular) ==
            LET len(p) == IndexedRun(a, p[1], ahi, b, p[2], bhi, popular)
                Block(best) == Extended(best[1], best[2], len(best))
            IN  IF starts = {} THEN Extended(alo, blo, 0)
                ELSE Block(CHOOSE p \in starts :
                               \A q \in starts :
                                   \/ len(p) > len(q)
                                   \/ len(p) = len(q) /\ p[1] < q[1]
                                   \/ len(p) = len(q) /\ p[1] = q[1] /\ p[2] <= q[2])
        Indexed(popular) ==
            Longest({p \in (alo..(ahi - 1)) \X (blo..(bhi - 1)) :
                         /\ CharAt(a, p[1] + 1) = CharAt(b, p[2] + 1)
                         /\ CharAt(b, p[2] + 1) \notin popular},
                    popular)
    IN  Indexed(bpopular(b))

RECURSIVE MatchCount(_, _, _, _, _, _)
\* the sum of the sizes of SequenceMatcher.get_matching_blocks()
MatchCount(a, alo, ahi, b, blo, bhi) ==
    LET Blocks(m) ==
            IF m[3] = 0 THEN 0
            ELSE m[3]
                 + (IF alo < m[1] /\ blo < m[2]
                    THEN MatchCount(a, alo, m[1], b, blo, m[2]) ELSE 0)
                 + (IF m[1] + m[3] < ahi /\ m[2] + m[3] < bhi
                    THEN MatchCount(a, m[1] + m[3], ahi, b, m[2] + m[3], bhi) ELSE 0)
    IN  Blocks(LongestMatch(a, alo, ahi, b, blo, bhi))

\* A score is the fraction num / den; bonus tells whether the containment
\* bonus of 0.2 was added to the ratio.
Score(num, den) == [num |-> num, den |-> den, bonus |-> FALSE]

\* ratio + containment_bonus, for the ratio 2 * matches / total
WithBonus(matches, total) == [num |-> 10 * matches + total, den |-> 5 * total, bonus |-> TRUE]

\* A float above zero: the 53 bits of its significand, the leading one first,
\* and the exponent e of that leading bit. The float 0.0 has a significand of
\* zeros (and the exponent 0).
Float(e, m) == [e |-> e, m |-> m]

SignificandBits == 53

\* 2^i modulo b, for i up to 52
Pow2Mod(i, b) ==
    IF i <= 26 THEN (2 ^ i) % b
    ELSE (((2 ^ 26) % b) * ((2 ^ (i - 26)) % b)) % b

\* bit i after the binary point of r / b, for 0 <= r < b
QuotientBit(r, b, i) == (2 * ((r * Pow2Mod(i - 1, b)) % b)) \div b

Zeros(n) == [i \in 1..n |-> 0]

\* a bit string of 53 bits plus one in its last place, one bit longer
PlusOne(bits) ==
    [i \in 1..(Len(bits) + 1) |->
        LET ones == \A j \in (i + 1)..(Len(bits) + 1) : bits[j - 1] = 1
        IN  IF i = 1 THEN (IF ones THEN 1 ELSE 0)
            ELSE IF ones THEN 1 - bits[i - 1] ELSE bits[i - 1]]

\* the sum of two bit strings of one length, one bit longer: a carry enters a
\* place when further down both bits are set and all places between pass it on
AddBits(x, y) ==
    LET n == Len(x)
        Carry(i) == \E j \in (i + 1)..n :
                        /\ x[j] = 1 /\ y[j] = 1
                        /\ \A k \in (i + 1)..(j - 1) : x[k] + y[k] = 1
    IN  [i \in 1..(n + 1) |->
            IF i = 1 THEN (IF Carry(0) THEN 1 ELSE 0)
            ELSE (x[i - 1] + y[i - 1] + (IF Carry(i - 1) THEN 1 ELSE 0)) % 2]

\* a bit string without its leading zeros
StripZeros(bits) ==
    LET first == CHOOSE i \in 1..Len(bits) : bits[i] = 1 /\ \A j \in 1..(i - 1) : bits[j] = 0
    IN  SubSeq(bits, first, Len(bits))

\* the float nearest to the number whose bits are bits (the first of them 1,
\* the last of weight 2^lsb) plus a rest below the last bit that is more than
\* half of it (more), half of it (half) or less: round half to even
RoundBits(bits, lsb, more, half) ==
    LET n == Len(bits)
        kept == SubSeq(bits, 1, SignificandBits)
        guard == n > SignificandBits /\ bits[SignificandBits + 1] = 1
        sticky == more \/ half \/ \E i \in (SignificandBits + 2)..n : bits[i] = 1
        up == IF n > SignificandBits
              THEN guard /\ (sticky \/ kept[SignificandBits] = 1)
              ELSE more \/ (half /\ kept[SignificandBits] = 1)
        sum == IF up THEN PlusOne(kept) ELSE <<0>> \o kept
        top == lsb + n - 1
    IN  IF sum[1] = 1 THEN Float(top + 1, SubSeq(sum, 1, SignificandBits))
        ELSE Float(top, SubSeq(sum, 2, SignificandBits + 1))

\* the s with b <= a * 2^s < 2 * b, for 0 < a < 2 * b
DivShift(a, b) == CHOOSE s \in 0..30 : b <= a * (2 ^ s) /\ a * (2 ^ s) < 2 * b

\* a / b on floats, for integers 0 <= a < 2 * b: the quotient correctly
\* rounded, 0.0 for a = 0
FloatDiv(a, b) ==
    LET Quotient(s) ==
            LET Rounded(r) ==
                    LET Bits(rest) ==
                            RoundBits([i \in 1..SignificandBits |->
                                          IF i = 1 THEN 1 ELSE QuotientBit(r, b, i - 1)],
                                      (0 - s) - (SignificandBits - 1),
                                      2 * rest > b, 2 * rest = b)
                    IN  Bits((r * Pow2Mod(SignificandBits - 1, b)) % b)
            IN  Rounded(a * (2 ^ s) - b)
    IN  IF a = 0 THEN Float(0, Zeros(SignificandBits)) ELSE Quotient(DivShift(a, b))

\* the bits of the float f from the place top down to the place lsb
Aligned(f, top, lsb) == Zeros(top - f.e) \o f.m \o Zeros((f.e - (SignificandBits - 1)) - lsb)

\* x + y on floats: the exact sum correctly rounded; 0.0 + y is y
FloatAdd(x, y) ==
    LET Sum(top, lsb) ==
            RoundBits(StripZeros(AddBits(Aligned(x, top, lsb), Aligned(y, top, lsb))),
                      lsb, FALSE, FALSE)
    IN  IF x.m = Zeros(SignificandBits) THEN y
        ELSE IF y.m = Zeros(SignificandBits) THEN x
        ELSE Sum(IF x.e > y.e THEN x.e ELSE y.e,
                 (IF x.e < y.e THEN x.e ELSE y.e) - (SignificandBits - 1))

\* whether the first of two bit strings of one length is the greater number
BitsGreater(x, y) ==
    \E i \in 1..Len(x) : x[i] > y[i] /\ \A j \in 1..(i - 1) : x[j] = y[j]

\* x > y on floats, none below zero
FloatGreater(x, y) ==
    /\ x.m # Zeros(SignificandBits)
    /\ \/ y.m = Zeros(SignificandBits)
       \/ x.e > y.e
       \/ x.e = y.e /\ BitsGreater(x.m, y.m)

\* the float _calculate_similarity returns for a score: ratio(), or
\* ratio + containment_bonus with the ratio (num - den / 5) / den
ScoreFloat(score) ==
    IF score.bonus
    THEN FloatAdd(FloatDiv(score.num - score.den \div 5, score.den), FloatDiv(1, 5))
    ELSE FloatDiv(score.num, score.den)

\* x > y on the floats of two scores. Two fractions of names that differ,
\* differ by far more than the rounding errors; two equal ones give one float
\* unless the bonus was added to one of them only, and then the floats decide
ScoreGreater(x, y) ==
    IF x.num * y.den # y.num * x.den THEN x.num * y.den > y.num * x.den
    ELSE x.bonus # y.bonus /\ FloatGreater(ScoreFloat(x), ScoreFloat(y))

\* _calculate_similarity: ratio() = 2.0 * matches / (len(a) + len(b)), plus 0.2
\* when one normalized name contains the other
_calculate_similarity(name_a, name_b) ==
    LET Contained(norm_a, norm_b) ==
            /\ Len(norm_a) > 4 /\ Len(norm_b) > 4
            /\ (StrContains(norm_b, norm_a) \/ StrContains(norm_a, norm_b))
        Ratio(matches, total, contained) ==
            IF contained THEN WithBonus(matches, total) ELSE Score(10 * matches, 5 * total)
        Similarity(norm_a, norm_b) ==
            IF norm_a = "" \/ norm_b = "" THEN Score(0, 1)
            ELSE IF Len(norm_a) < 5 \/ Len(norm_b) < 5
            THEN (IF norm_a = norm_b THEN Score(1, 1) ELSE Score(0, 1))
            ELSE Ratio(MatchCount(norm_a, 0, Len(norm_a), norm_b, 0, Len(norm_b)),
                       Len(norm_a) + Len(norm_b), Contained(norm_a, norm_b))
    IN  Similarity(_normalize_for_match(name_a), _normalize_for_match(name_b))

Companies == {"Apex", "Bima"}

\* the orders in which two companies may be inserted into a set, or listed
CompanyOrders == {<<"Apex", "Bima">>, <<"Bima", "Apex">>}

\* How list(set(...)) lists two companies depends on the hashes of their
\* names in the process, which PYTHONHASHSEED draws: without a collision in
\* the table one order whatever the insertions, with one the order follows
\* from which company was inserted first. An order is the listing for each
\* order of insertion.
SetOrders == [CompanyOrders -> CompanyOrders]

\* no set has been listed yet
NoOrder == <<>>

\* the orders the process may turn out to have, given the one seen so far
OrdersLeft(seen) == IF seen = NoOrder THEN SetOrders ELSE {seen}

\* the order seen once a pass has turned the registry d into merged: a pass
\* that merged nothing has listed no set
OrderSeen(seen, order, d, merged) == IF merged = d THEN seen ELSE order

RECURSIVE FirstOccurrences(_, _)
\* the items of a list without their repetitions
FirstOccurrences(items, seen) ==
    IF items = <<>> THEN <<>>
    ELSE IF Head(items) \in seen THEN FirstOccurrences(Tail(items), seen)
    ELSE <<Head(items)>> \o FirstOccurrences(Tail(items), seen \cup {Head(items)})

\* list(set(items)): the companies of items, inserted in the order of items
ListOfSet(items, order) ==
    LET inserted == FirstOccurrences(items, {})
    IN  IF Len(inserted) = 2 THEN order[inserted] ELSE inserted

\* the sources are intersected, not united
_merge_record_data_Intersect(primary, secondary, order) ==
    LET InSecondary(x) == x \in SeqToSet(secondary.excluded_by)
        combined_insurers == SelectSeq(primary.excluded_by, InSecondary)
        addr_p == _normalize_for_match(Strip(primary.address))
        addr_s == _normalize_for_match(Strip(secondary.address))
        Backfill(p, s) == IF p = "" /\ s # "" THEN s ELSE p
    IN  [primary EXCEPT
            !.excluded_by = ListOfSet(combined_insurers, order),
            !.address = IF Len(addr_s) > Len(addr_p) THEN secondary.address ELSE @,
            !.city = Backfill(@, secondary.city),
            !.state = Backfill(@, secondary.state),
            !.pincode = Backfill(@, secondary.pincode)]

\* primary after _merge_record_data(primary, secondary); order tells how
\* list(set(...)) lists the companies
_merge_record_data(primary, secondary, order) ==
    LET combined_insurers == primary.excluded_by \o secondary.excluded_by
        addr_p == _normalize_for_match(Strip(primary.address))
        addr_s == _normalize_for_match(Strip(secondary.address))
        Backfill(p, s) == IF p = "" /\ s # "" THEN s ELSE p
    IN  [primary EXCEPT
            !.excluded_by = ListOfSet(combined_insurers, order),
            !.address = IF Len(addr_s) > Len(addr_p) THEN secondary.address ELSE @,
            !.city = Backfill(@, secondary.city),
            !.state = Backfill(@, secondary.state),
            !.pincode = Backfill(@, secondary.pincode)]

\* accuracy_map.get(accuracy, 0) of _get_record_rank_score
AccuracyScore(accuracy) ==
    CASE accuracy = "HIGH" -> 3
      [] accuracy = "MEDIUM" -> 2
      [] accuracy = "LOW" -> 1
      [] OTHER -> 0

\* _get_record_rank_score of a record: (acc_score, len(name))
_get_record_rank_score(rec) == <<AccuracyScore(rec.accuracy), Len(rec.name)>>

\* the order of the ranks is turned around
RankGreater_Reversed(x, y) == y[1] > x[1] \/ (x[1] = y[1] /\ y[2] > x[2])

RankGreater(x, y) == x[1] > y[1] \/ (x[1] = y[1] /\ x[2] > y[2])

\* round(x, 5) of a coordinate given in millionths of a degree, in units of
\* 0.00001 degree (the coordinates of the model are never half way)
Round5(x) == (x + 5) \div 10

CoordKey(rec) == <<Round5(rec.lat), Round5(rec.lng)>>

\* only the records of accuracy HIGH are grouped
Grouped_HighOnly(rec) == rec.accuracy = "HIGH" /\ rec.lat # 0 /\ rec.lng # 0

\* whether _deduplicate_spatial groups the record
Grouped(rec) == AccuracyScore(rec.accuracy) > 0 /\ rec.lat # 0 /\ rec.lng # 0

\* the positions in d of the group of coordinate key, in the order of d
GroupOf(d, key) == {i \in 1..Len(d) : Grouped(d[i]) /\ CoordKey(d[i]) = key}

\* uids.sort(key=rank, reverse=True)[0]: the first of the best ranked
PrimaryOf(d, group) ==
    CHOOSE i \in group :
        \A j \in group \ {i} :
            \/ RankGreater(_get_record_rank_score(d[i]), _get_record_rank_score(d[j]))
            \/ /\ _get_record_rank_score(d[i]) = _get_record_rank_score(d[j])
               /\ i < j

\* the members of group but first, as uids.sort(reverse=True) orders them
RECURSIVE SortedGroup(_, _)
SortedGroup(d, group) ==
    IF group = {} THEN <<>>
    ELSE LET i == PrimaryOf(d, group) IN <<i>> \o SortedGroup(d, group \ {i})

\* nothing is merged into the primary
MergeAll_None(d, primary, idxs, order) == primary

RECURSIVE MergeAll(_, _, _, _)
\* the primary after the records at positions idxs are merged into it in turn
MergeAll(d, primary, idxs, order) ==
    IF idxs = <<>> THEN primary
    ELSE MergeAll(d, _merge_record_data(primary, d[Head(idxs)], order), Tail(idxs), order)

RECURSIVE MergeGroups(_, _, _, _, _)
\* the loop of _deduplicate_spatial over coordinate_groups, which holds the
\* groups in the order of their first records: cur is self.data so far, i the
\* position looked at, to_delete the absorbed keys
MergeGroups(d, cur, i, to_delete, order) ==
    IF i > Len(d) THEN DictDelAll(cur, to_delete)
    ELSE LET group == GroupOf(d, CoordKey(d[i]))
             sorted == SortedGroup(d, group)
             primary == Head(sorted)
         IN  IF ~(Grouped(d[i]) /\ Cardinality(group) >= 2 /\ \A j \in group : j >= i)
             THEN MergeGroups(d, cur, i + 1, to_delete, order)
             ELSE MergeGroups(d,
                              [cur EXCEPT ![primary] =
                                  MergeAll(d, d[primary], Tail(sorted), order)],
                              i + 1,
                              to_delete \cup {d[j].uid : j \in group \ {primary}},
                              order)

\* self.data after _deduplicate_spatial
_deduplicate_spatial(d, order) == MergeGroups(d, d, 1, {}, order)

\* the length of the pin is not looked at
Bucketed_Any(rec) == TRUE

\* whether _deduplicate_with_text buckets the record: its pin has 6 characters or more
Bucketed(rec) == Len(Strip(rec.pincode)) >= 6

IsMaster(rec) == Bucketed(rec) /\ rec.accuracy \in {"HIGH", "LOW"}

IsCandidate(rec) == Bucketed(rec) /\ rec.accuracy \notin {"HIGH", "LOW"}

\* the positions of the masters of a pin, in the order of d
MastersOf(d, pin) == {i \in 1..Len(d) : IsMaster(d[i]) /\ Strip(d[i].pincode) = pin}

\* the threshold is 0.8
AboveThreshold_Lower(score) == ScoreGreater(score, Score(80, 100))

\* score > 0.85, line 674: the literal 0.85 is the float of 85 / 100
AboveThreshold(score) == ScoreGreater(score, Score(85, 100))

\* best_master_id for the candidate at position c: the first master of the
\* best score above 0.85, or 0 when there is none
BestMaster(d, c) ==
    LET masters == MastersOf(d, Strip(d[c].pincode))
        scored == {<<m, _calculate_similarity(d[c].name, d[m].name)>> : m \in masters}
        First(good) ==
            IF good = {} THEN 0
            ELSE (CHOOSE x \in good :
                      \A y \in good \ {x} :
                          \/ ScoreGreater(x[2], y[2])
                          \/ ~ScoreGreater(y[2], x[2]) /\ x[1] < y[1])[1]
    IN  First({x \in scored : AboveThreshold(x[2])})

\* the loop ends at the first candidate merged
AbsorbAll_FirstOnly(d, cands, to_delete, order) ==
    LET masters == {<<cands[k], BestMaster(d, cands[k])>> : k \in 1..Len(cands)}
        matched == {x \in masters : x[2] # 0}
        first == CHOOSE x \in matched : \A y \in matched : x[1] <= y[1]
    IN  IF matched = {} THEN d
        ELSE DictDelAll([d EXCEPT ![first[2]] = _merge_record_data(@, d[first[1]], order)],
                        {d[first[1]].uid})

RECURSIVE AbsorbAll(_, _, _, _)
\* the loop of _deduplicate_with_text over the candidates at positions cands:
\* each is merged into its best master; to_delete are the absorbed keys
AbsorbAll(d, cands, to_delete, order) ==
    IF cands = <<>> THEN DictDelAll(d, to_delete)
    ELSE LET c == Head(cands)
             Absorb(m) ==
                 IF m = 0 THEN AbsorbAll(d, Tail(cands), to_delete, order)
                 ELSE AbsorbAll([d EXCEPT ![m] = _merge_record_data(d[m], d[c], order)],
                                Tail(cands), to_delete \cup {d[c].uid}, order)
         IN  Absorb(BestMaster(d, c))

RECURSIVE CandidatePositions(_, _)
\* the positions of the candidates from position i on, in the order of d
CandidatePositions(d, i) ==
    IF i > Len(d) THEN <<>>
    ELSE (IF IsCandidate(d[i]) THEN <<i>> ELSE <<>>) \o CandidatePositions(d, i + 1)

\* self.data after _deduplicate_with_text
_deduplicate_with_text(d, order) == AbsorbAll(d, CandidatePositions(d, 1), {}, order)

------------------------------------------------------------------------------
(* Persistence: save_to_disk *)

NoFileContent == [exists |-> FALSE, items |-> <<>>, complete |-> FALSE]

FileContent(items, complete) == [exists |-> TRUE, items |-> items, complete |-> complete]

\* the order of characters (ASCII) among those of the model
CharOrder == " ,-.0123456789ABCDEFGHIJKLMNOPQRSTUVWXYZ_abcdefghijklmnopqrstuvwxyz|"

CharCode(c) == IndexIn(c, CharOrder)

\* a < b on str
StrLess(a, b) ==
    LET differing == {i \in 1..Len(a) : i <= Len(b) /\ CharAt(a, i) # CharAt(b, i)}
        Before(i) == CharCode(CharAt(a, i)) < CharCode(CharAt(b, i))
    IN  IF differing = {} THEN Len(a) < Len(b)
        ELSE Before(CHOOSE i \in differing : \A h \in differing : i <= h)

StrLeq(a, b) == a = b \/ StrLess(a, b)

RECURSIVE InsertSorted(_, _)
InsertSorted(seq, x) ==
    IF seq = <<>> THEN <<x>>
    ELSE IF StrLess(x, Head(seq)) THEN <<x>> \o seq
    ELSE <<Head(seq)>> \o InsertSorted(Tail(seq), x)

RECURSIVE SortStrings(_)
\* list.sort() on a list of str
SortStrings(seq) ==
    IF seq = <<>> THEN <<>>
    ELSE InsertSorted(SortStrings(SubSeq(seq, 1, Len(seq) - 1)), seq[Len(seq)])

\* get_sort_key of save_to_disk
SortKey(item) ==
    LET pin == Strip(item.pincode)
        name == StrLower(Strip(item.name))
        is_invalid == ~(IsDigitStr(pin) /\ Len(pin) = 6)
    IN  [is_invalid |-> is_invalid, pin |-> pin, name |-> name]

\* the order of the tuples (is_invalid, pin, name)
KeyLess(a, b) ==
    \/ ~a.is_invalid /\ b.is_invalid
    \/ a.is_invalid = b.is_invalid /\ StrLess(a.pin, b.pin)
    \/ a.is_invalid = b.is_invalid /\ a.pin = b.pin /\ StrLess(a.name, b.name)

RECURSIVE InsertItem(_, _)
\* x placed after the items that do not sort after it (a stable sort)
InsertItem(seq, x) ==
    IF seq = <<>> THEN <<x>>
    ELSE IF KeyLess(SortKey(x), SortKey(Head(seq))) THEN <<x>> \o seq
    ELSE <<Head(seq)>> \o InsertItem(Tail(seq), x)

RECURSIVE SortItems(_)
\* clean_list.sort(key=get_sort_key)
SortItems(seq) ==
    IF seq = <<>> THEN <<>>
    ELSE InsertItem(SortItems(SubSeq(seq, 1, Len(seq) - 1)), seq[Len(seq)])

\* the keys of a record that do not start with "_", excluded_by sorted
CleanItem(rec) ==
    [name |-> rec.name, address |-> rec.address, city |-> rec.city,
     state |-> rec.state, pincode |-> rec.pincode,
     excluded_by |-> SortStrings(rec.excluded_by),
     lat |-> rec.lat, lng |-> rec.lng, accuracy |-> rec.accuracy]

\* clean_list of save_to_disk, lines 857-885
CleanList(d) == SortItems([i \in 1..Len(d) |-> CleanItem(d[i])])

\* self.data after lines 857-869: the excluded_by lists are those of the
\* records themselves, so sorting them sorts the registry's
SortedInPlace(d) ==
    [i \in 1..Len(d) |-> [d[i] EXCEPT !.excluded_by = SortStrings(@)]]

------------------------------------------------------------------------------
(* The inputs of a run: the source files and the services' answers *)

MaxRuns == 2

R1 == [name |-> "Sri Hospital", address |-> "12 MG Rd", city |-> "Pune",
       state |-> "MH", pin |-> "411001"]
R2 == [name |-> "SRI. HOSPITAL", address |-> "", city |-> "Pune",
       state |-> "MH", pin |-> "411001"]
R3 == [name |-> "Sri Hospital", address |-> "14 Camp Road", city |-> "Pune ",
       state |-> "MH", pin |-> " 411001"]
R4 == [name |-> "Om Clinic", address |-> "Station Rd", city |-> "Pune",
       state |-> "MH", pin |-> ""]
R5 == [name |-> "Hospital Name", address |-> "Address", city |-> "City",
       state |-> "State", pin |-> "Pin Code"]
R6 == [name |-> " ", address |-> "1 Main St", city |-> "Pune",
       state |-> "MH", pin |-> "411001"]

R7 == [name |-> "Sri Clinic", address |-> "14 Camp Road", city |-> "Pune",
       state |-> "MH", pin |-> "411001"]

SourceFile(company, records, fail) ==
    [company |-> company, records |-> records, fail |-> fail]

\* the listings glob may return over the runs: no file; one file; a file whose
\* record brings a new address and a namesake; two files listing one hospital,
\* in either order; two files listing two hospitals, after a header row; two
\* files that cannot be read, the first after a blank row, the second at all;
\* a file that cannot be read, listing two hospitals, before one that lists one
\* of them
Dirs ==
    {<<>>,
     <<SourceFile("Apex", <<R1>>, NoFail)>>,
     <<SourceFile("Bima", <<R3, R7>>, NoFail)>>,
     <<SourceFile("Apex", <<R1>>, NoFail), SourceFile("Bima", <<R2>>, NoFail)>>,
     <<SourceFile("Bima", <<R2>>, NoFail), SourceFile("Apex", <<R1>>, NoFail)>>,
     <<SourceFile("Apex", <<R1>>, NoFail), SourceFile("Bima", <<R5, R4>>, NoFail)>>,
     <<SourceFile("Apex", <<R6, R1>>, 1), SourceFile("Bima", <<R1>>, 0)>>,
     <<SourceFile("Bima", <<R4, R1>>, 0), SourceFile("Apex", <<R1>>, NoFail)>>}

\* coordinates the services answer with: a place, and a place on the
\* Greenwich meridian (longitude 0.0)
Locs == {Coord(18520010, 73856010), Coord(18520010, 0)}

CityLocs == {Coord(18520400, 73856700)}

\* failures of the file system injected into save_to_disk, over all runs
MaxFaults == 1

IdleKey ==
    /\ kA = [name |-> "", pin |-> "", city |-> ""]
    /\ kB = kA
    /\ kKeyA = NoKey
    /\ kKeyB = NoKey
    /\ kEdits = 0

IdleDedup ==
    /\ dReg = <<>>
    /\ dSpatial = <<>>
    /\ dOnce = <<>>
    /\ dTwice = <<>>
    /\ set_order = NoOrder

IdlePipeline ==
    /\ apiKey = FALSE
    /\ outFile = NoFileContent
    /\ tempFile = NoFileContent
    /\ prevOut = NoFileContent
    /\ faults = 0
    /\ dir = <<>>
    /\ data = <<>>
    /\ fi = 1
    /\ ri = 1
    /\ active = {}
    /\ before = {}
    /\ pending = <<>>
    /\ best_result = PendingResult
    /\ api_hits = 0
    /\ places_api_enabled = TRUE
    /\ city_coords_cache = <<>>
    /\ called = FALSE
    /\ failed = {}
    /\ reply = Answered(NoAnswer)
    /\ is_final = FALSE
    /\ runs = 0

------------------------------------------------------------------------------
(* The run *)

\* GeocodingPipeline(): a fresh pipeline, in a directory with the given files
FreshPipeline ==
    /\ data' = <<>>
    /\ fi' = 1
    /\ ri' = 1
    /\ active' = {}
    /\ before' = {}
    /\ pending' = <<>>
    /\ best_result' = PendingResult
    /\ api_hits' = 0
    /\ places_api_enabled' = TRUE
    /\ city_coords_cache' = <<>>
    /\ called' = FALSE
    /\ failed' = {}
    /\ reply' = Answered(NoAnswer)
    /\ is_final' = FALSE

Init ==
    /\ pc = "start"
    /\ IdleKey
    /\ IdleDedup
    /\ apiKey \in BOOLEAN
    /\ dir \in Dirs
    /\ runs = 1
    /\ outFile = NoFileContent
    /\ tempFile = NoFileContent
    /\ prevOut = NoFileContent
    /\ faults = 0
    /\ data = <<>>
    /\ fi = 1
    /\ ri = 1
    /\ active = {}
    /\ before = {}
    /\ pending = <<>>
    /\ best_result = PendingResult
    /\ api_hits = 0
    /\ places_api_enabled = TRUE
    /\ city_coords_cache = <<>>
    /\ called = FALSE
    /\ failed = {}
    /\ reply = Answered(NoAnswer)
    /\ is_final = FALSE

\* run without GMAPS_API_KEY, lines 788-790
RunNoKey ==
    /\ pc = "start"
    /\ ~apiKey
    /\ pc' = "done"
    /\ UNCHANGED <<keyVars, fileVars, mergeVars, geoVars, envVars, data, is_final>>

\* run, lines 792-796: load_existing_data, then merge_sources up to its loop
RunLoad ==
    /\ pc = "start"
    /\ apiKey
    /\ LET d == load_existing_data(outFile)
           at == Advance(dir, 1, 1)
       IN  /\ data' = d
           /\ before' = DictKeys(d)
           /\ fi' = at[1]
           /\ ri' = at[2]
    /\ active' = {}
    /\ pc' = "merge"
    /\ UNCHANGED <<keyVars, fileVars, geoVars, envVars, is_final>>

\* merge_sources when glob finds no source file, lines 113-115
MergeNoFiles ==
    /\ pc = "merge"
    /\ dir = <<>>
    /\ pc' = "select"
    /\ UNCHANGED <<keyVars, fileVars, mergeVars, geoVars, envVars, data, is_final>>

\* one turn of the loop of merge_sources, lines 128-131
MergeRecord ==
    /\ pc = "merge"
    /\ fi <= Len(dir)
    /\ LET file == dir[fi]
           got == _process_source_record(data, file.records[ri], file.company)
           at == Advance(dir, fi, ri + 1)
       IN  /\ data' = got.data
           /\ active' = IF got.uid # None THEN active \cup {got.uid} ELSE active
           /\ fi' = at[1]
           /\ ri' = at[2]
    /\ UNCHANGED <<pc, keyVars, fileVars, before, geoVars, envVars, is_final>>

\* the pruning of merge_sources, lines 137-147
MergePrune ==
    /\ pc = "merge"
    /\ dir # <<>>
    /\ fi > Len(dir)
    /\ data' = Prune(data, active)
    /\ pc' = "select"
    /\ UNCHANGED <<keyVars, fileVars, mergeVars, geoVars, envVars, is_final>>

\* where the run goes once the record at the head of todo is done with
NextPosition(d, todo, cache, enabled) ==
    IF todo = <<>> THEN "dedup"
    ELSE FirstCall(cache, RecordCityKey(DictGet(d, Head(todo))), enabled)

\* run, lines 799-815: the records to geocode are chosen
SelectPending ==
    /\ pc = "select"
    /\ pending' = PendingItems(data)
    /\ pc' = NextPosition(data, PendingItems(data), city_coords_cache, places_api_enabled)
    /\ UNCHANGED <<keyVars, fileVars, mergeVars, envVars, data, is_final,
                   best_result, api_hits, places_api_enabled, city_coords_cache, called,
                   failed, reply>>

\* the checkpoint of the loop is saved as the final save is
FinishRecord_CheckpointCommits(answer, result, cache, enabled) ==
    LET uid == Head(pending)
        d == DictSet(data, uid, ApplyResult(DictGet(data, uid), result))
        hits == api_hits + 1
    IN  /\ data' = d
        /\ api_hits' = hits
        /\ pending' = Tail(pending)
        /\ best_result' = PendingResult
        /\ city_coords_cache' = cache
        /\ places_api_enabled' = enabled
        /\ called' = TRUE
        /\ failed' = IF result.lat = 0 /\ result.lng = 0 THEN failed \cup {uid} ELSE failed
        /\ reply' = Returned(answer, result)
        /\ IF hits % SAVE_INTERVAL = 0
           THEN pc' = "save_open" /\ is_final' = TRUE
           ELSE /\ pc' = "wait"
                /\ UNCHANGED is_final
        /\ UNCHANGED <<keyVars, fileVars, mergeVars, envVars>>

\* fetch_geocoding returns result for the record at the head of pending; the
\* loop of run takes it, lines 820-838, counts the hit, line 840, and goes to
\* save a checkpoint when one is due, line 843, or else to its wait
FinishRecord(answer, result, cache, enabled) ==
    LET uid == Head(pending)
        d == DictSet(data, uid, ApplyResult(DictGet(data, uid), result))
        hits == api_hits + 1
    IN  /\ data' = d
        /\ api_hits' = hits
        /\ pending' = Tail(pending)
        /\ best_result' = PendingResult
        /\ city_coords_cache' = cache
        /\ places_api_enabled' = enabled
        /\ called' = TRUE
        /\ failed' = IF result.lat = 0 /\ result.lng = 0 THEN failed \cup {uid} ELSE failed
        /\ reply' = Returned(answer, result)
        /\ IF hits % SAVE_INTERVAL = 0
           THEN pc' = "save_open" /\ is_final' = FALSE
           ELSE /\ pc' = "wait"
                /\ UNCHANGED is_final
        /\ UNCHANGED <<keyVars, fileVars, mergeVars, envVars>>

\* fetch_geocoding goes on to its next outbound call
Continue(answer, next, best, cache, enabled) ==
    /\ pc' = next
    /\ reply' = Answered(answer)
    /\ best_result' = best
    /\ city_coords_cache' = cache
    /\ places_api_enabled' = enabled
    /\ called' = TRUE
    /\ UNCHANGED <<keyVars, fileVars, mergeVars, envVars, data, is_final, pending, api_hits,
                   failed>>

CurrentKey == RecordCityKey(DictGet(data, Head(pending)))

\* _get_city_coordinates on a key not cached, lines 220-238: the city is
\* geocoded and the answer, or None when the call fails, is cached
GeoCity ==
    /\ pc = "city"
    /\ \E answer \in {NoneLoc} \cup {FoundLoc(l) : l \in CityLocs} :
        Continue(NoAnswer, IF places_api_enabled THEN "places" ELSE "bb", best_result,
                 CachePut(city_coords_cache, CurrentKey, answer), places_api_enabled)

\* Strategy A, lines 337-390
GeoPlaces ==
    /\ pc = "places"
    /\ \/ \E status \in {"403", "REQUEST_DENIED"} :
            Continue(NoAnswer, "bb", best_result, city_coords_cache, FALSE)
       \/ \E status \in {"error", "ZERO_RESULTS", "not_health"} :
            Continue(NoAnswer, "bb", best_result, city_coords_cache, places_api_enabled)
       \/ \E loc \in Locs :
            FinishRecord(Result(loc.lat, loc.lng, "HIGH"), Result(loc.lat, loc.lng, "HIGH"),
                         city_coords_cache, places_api_enabled)

\* Strategy B, lines 393-416: _search_bb_places
GeoBB ==
    /\ pc = "bb"
    /\ \/ \E answer \in {"error", "none", "description"} :
            Continue(NoAnswer, "addr1", best_result, city_coords_cache, places_api_enabled)
       \/ Continue(NoAnswer, "details", best_result, city_coords_cache, places_api_enabled)

\* the cascade goes on after the place details gave a location
GeoDetails_GoesOn ==
    /\ pc = "details"
    /\ \/ \E loc \in Locs :
            Continue(Result(loc.lat, loc.lng, "HIGH"), "addr1", best_result,
                     city_coords_cache, places_api_enabled)
       \/ Continue(NoAnswer, "addr1", best_result, city_coords_cache, places_api_enabled)

\* Strategy B, lines 398-404: _fetch_gmaps_place_details on the place id
GeoDetails ==
    /\ pc = "details"
    /\ \/ \E loc \in Locs :
            FinishRecord(Result(loc.lat, loc.lng, "HIGH"), Result(loc.lat, loc.lng, "HIGH"),
                         city_coords_cache, places_api_enabled)
       \/ Continue(NoAnswer, "addr1", best_result, city_coords_cache, places_api_enabled)

\* an exception of the first address call is not caught: it ends the run
GeoAddr1_Raises ==
    /\ pc = "addr1"
    /\ \/ /\ pc' = "done"
          /\ UNCHANGED <<keyVars, fileVars, mergeVars, geoVars, envVars, data, is_final>>
       \/ Continue(NoAnswer, "addr2", best_result, city_coords_cache, places_api_enabled)
       \/ \E loc \in Locs :
            \/ FinishRecord(Result(loc.lat, loc.lng, "HIGH"), Result(loc.lat, loc.lng, "HIGH"),
                            city_coords_cache, places_api_enabled)
            \/ Continue(Result(loc.lat, loc.lng, "LOW"), "addr2",
                        Result(loc.lat, loc.lng, "LOW"), city_coords_cache,
                        places_api_enabled)

\* Strategy C, attempt 1, lines 431-451
GeoAddr1 ==
    /\ pc = "addr1"
    /\ \/ \* the call raises: lines 476-477, then Strategy D
          FinishRecord(NoAnswer, CityFallback(best_result, city_coords_cache, CurrentKey),
                       city_coords_cache, places_api_enabled)
       \/ \* status is not OK
          Continue(NoAnswer, "addr2", best_result, city_coords_cache, places_api_enabled)
       \/ \E loc \in Locs :
            \/ FinishRecord(Result(loc.lat, loc.lng, "HIGH"), Result(loc.lat, loc.lng, "HIGH"),
                            city_coords_cache, places_api_enabled)
            \/ Continue(Result(loc.lat, loc.lng, "LOW"), "addr2",
                        Result(loc.lat, loc.lng, "LOW"), city_coords_cache,
                        places_api_enabled)

\* what fetch_geocoding returns once attempt 2 is over without a HIGH result,
\* lines 469-496: raised tells whether the call raised
AfterAttempts(raised, best, cache, key) ==
    IF ~raised /\ best.accuracy # "Pending" THEN best ELSE CityFallback(best, cache, key)

\* Strategy C, attempt 2, and the end of fetch_geocoding, lines 453-496
GeoAddr2 ==
    /\ pc = "addr2"
    /\ \/ \* the call raises, or its status is not OK
          \E raised \in BOOLEAN :
            FinishRecord(NoAnswer,
                         AfterAttempts(raised, best_result, city_coords_cache, CurrentKey),
                         city_coords_cache, places_api_enabled)
       \/ \E loc \in Locs :
            \/ FinishRecord(Result(loc.lat, loc.lng, "HIGH"), Result(loc.lat, loc.lng, "HIGH"),
                            city_coords_cache, places_api_enabled)
            \/ \* an answer of LOW accuracy is not kept
               FinishRecord(Result(loc.lat, loc.lng, "LOW"),
                            AfterAttempts(FALSE, best_result, city_coords_cache, CurrentKey),
                            city_coords_cache, places_api_enabled)

\* run, lines 793-796, of a later run: self.data after load_existing_data of
\* the registry file and merge_sources over the files then present
NextRunRegistry(file, files) == merge_sources(load_existing_data(file), files)

\* deduplicate_data, line 704: the spatial pass
DedupSpatial ==
    /\ pc = "dedup"
    /\ \E order \in SetOrders :
        /\ data' = _deduplicate_spatial(data, order)
        /\ set_order' = OrderSeen(NoOrder, order, data, data')
    /\ pc' = "dedup_text"
    /\ reply' = Answered(NoAnswer)
    /\ UNCHANGED <<kA, kB, kKeyA, kKeyB, kEdits, dReg, dSpatial, dOnce, dTwice, fileVars,
                   mergeVars, envVars, is_final, pending, best_result,
                   api_hits, places_api_enabled, city_coords_cache, called, failed>>

\* deduplicate_data, line 706: the textual pass; run then saves for good
DedupText ==
    /\ pc = "dedup_text"
    /\ \E order \in OrdersLeft(set_order) : data' = _deduplicate_with_text(data, order)
    /\ set_order' = NoOrder
    /\ pc' = "save_open"
    /\ is_final' = TRUE
    /\ UNCHANGED <<kA, kB, kKeyA, kKeyB, kEdits, dReg, dSpatial, dOnce, dTwice, fileVars,
                   mergeVars, geoVars, envVars>>

\* where save_to_disk returns to: the end of run, or the wait of the loop
AfterSave == IF is_final THEN "done" ELSE "wait"

\* run, line 846: time.sleep(0.1) at the end of each turn of the loop, after
\* which the loop takes its next record or ends
Wait ==
    /\ pc = "wait"
    /\ pc' = NextPosition(data, pending, city_coords_cache, places_api_enabled)
    /\ UNCHANGED <<keyVars, fileVars, mergeVars, geoVars, envVars, data, is_final>>

\* save_to_disk, lines 857-887: the list is made and TEMP_FILE is opened
SaveOpen ==
    /\ pc = "save_open"
    /\ data' = SortedInPlace(data)
    /\ prevOut' = outFile
    /\ \/ /\ tempFile' = FileContent(<<>>, FALSE)
          /\ pc' = "save_dump"
          /\ UNCHANGED faults
       \/ /\ faults < MaxFaults
          /\ faults' = faults + 1
          /\ tempFile' = tempFile
          /\ pc' = AfterSave
    /\ UNCHANGED <<keyVars, outFile, mergeVars, geoVars, envVars, is_final>>

\* a failed write is followed by the move all the same
SaveDump_Promotes ==
    /\ pc = "save_dump"
    /\ \/ /\ tempFile' = FileContent(CleanList(data), TRUE)
          /\ pc' = IF is_final THEN "save_move" ELSE AfterSave
          /\ UNCHANGED faults
       \/ /\ faults < MaxFaults
          /\ faults' = faults + 1
          /\ \E k \in 0..Len(data) :
                tempFile' = FileContent(SubSeq(CleanList(data), 1, k), FALSE)
          /\ pc' = IF is_final THEN "save_move" ELSE AfterSave
    /\ UNCHANGED <<keyVars, outFile, prevOut, mergeVars, geoVars, envVars, data, is_final>>

\* save_to_disk, line 888: json.dump writes the list, or raises part way
SaveDump ==
    /\ pc = "save_dump"
    /\ \/ /\ tempFile' = FileContent(CleanList(data), TRUE)
          /\ pc' = IF is_final THEN "save_move" ELSE AfterSave
          /\ UNCHANGED faults
       \/ /\ faults < MaxFaults
          /\ faults' = faults + 1
          /\ \E k \in 0..Len(data) :
                tempFile' = FileContent(SubSeq(CleanList(data), 1, k), FALSE)
          /\ pc' = AfterSave
    /\ UNCHANGED <<keyVars, outFile, prevOut, mergeVars, geoVars, envVars, data, is_final>>

\* save_to_disk, line 890: TEMP_FILE is moved over OUTPUT_FILE, or the move raises
SaveMove ==
    /\ pc = "save_move"
    /\ \/ /\ outFile' = tempFile
          /\ tempFile' = NoFileContent
          /\ UNCHANGED faults
       \/ /\ faults < MaxFaults
          /\ faults' = faults + 1
          /\ UNCHANGED <<outFile, tempFile>>
    /\ pc' = AfterSave
    /\ UNCHANGED <<keyVars, prevOut, mergeVars, geoVars, envVars, data, is_final>>

\* a call made without timeout to a service that never answers: session.get
\* does not return
Hang ==
    /\ pc \in CallPositions
    /\ CallTimeout[pc] = NoTimeout
    /\ pc' = "blocked"
    /\ UNCHANGED <<keyVars, fileVars, mergeVars, geoVars, envVars, data, is_final>>

\* whether the run is in its geocoding loop, lines 816-846
InGeocodingLoop ==
    \/ pc \in CallPositions \cup {"blocked", "wait"}
    \/ pc \in {"save_open", "save_dump"} /\ ~is_final

\* whether the process of run is alive
Running == pc \notin {"done", "killed"}

\* SIGINT while the process runs: KeyboardInterrupt is no Exception, so no
\* except clause of the pipeline catches it and run has no handler; the
\* process ends, and what it held in memory with it. Inside json.dump, line
\* 888, the with statement closes TEMP_FILE on what was written so far.
Interrupt ==
    /\ Running
    /\ pc' = "killed"
    /\ FreshPipeline
    /\ IF pc = "save_dump"
       THEN \E k \in 0..Len(data) :
                tempFile' = FileContent(SubSeq(CleanList(data), 1, k), FALSE)
       ELSE UNCHANGED tempFile
    /\ set_order' = NoOrder
    /\ UNCHANGED <<kA, kB, kKeyA, kKeyB, kEdits, dReg, dSpatial, dOnce, dTwice, outFile,
                   prevOut, faults, envVars>>

\* the pipeline is started again, later, on the files then present
NewRun ==
    /\ pc \in {"done", "killed"}
    /\ runs < MaxRuns
    /\ runs' = runs + 1
    /\ apiKey' \in BOOLEAN
    /\ dir' \in Dirs
    /\ FreshPipeline
    /\ pc' = "start"
    /\ prevOut' = outFile
    /\ UNCHANGED <<keyVars, outFile, tempFile, faults>>

Next ==
    \/ RunNoKey \/ RunLoad
    \/ MergeNoFiles \/ MergeRecord \/ MergePrune
    \/ SelectPending
    \/ GeoCity \/ GeoPlaces \/ GeoBB \/ GeoDetails \/ GeoAddr1 \/ GeoAddr2
    \/ DedupSpatial \/ DedupText
    \/ SaveOpen \/ SaveDump \/ SaveMove
    \/ Wait
    \/ Hang \/ Interrupt
    \/ NewRun

Spec == Init /\ [][Next]_vars

------------------------------------------------------------------------------
(* The run over a registry file that is already there *)

\* an item of OUTPUT_FILE for the hospital that R1 lists
LoadedItem(accuracy, lat, lng) ==
    [name |-> "Sri Hospital", address |-> "12 MG Rd", city |-> "Pune", state |-> "MH",
     pincode |-> "411001", excluded_by |-> <<"Apex">>, lat |-> lat, lng |-> lng,
     accuracy |-> accuracy]

\* registry files not written by a run of this model: the hospital without
\* coordinates, Failed or NoKey, and Pending with a latitude but no longitude
LoadedFiles ==
    {FileContent(<<LoadedItem("Failed", 0, 0)>>, TRUE),
     FileContent(<<LoadedItem("NoKey", 0, 0)>>, TRUE),
     FileContent(<<LoadedItem("Pending", 18520010, 0)>>, TRUE)}

\* the source files of that run
LoadedDirs ==
    {<<SourceFile("Apex", <<R1>>, NoFail)>>,
     <<SourceFile("Apex", <<R1>>, NoFail), SourceFile("Bima", <<R5, R4>>, NoFail)>>}

\* one run of the pipeline, with the key, that finds such a registry file
InitLoaded ==
    /\ pc = "start"
    /\ IdleKey
    /\ IdleDedup
    /\ apiKey = TRUE
    /\ dir \in LoadedDirs
    /\ runs = MaxRuns
    /\ outFile \in LoadedFiles
    /\ tempFile = NoFileContent
    /\ prevOut = outFile
    /\ faults = 0
    /\ data = <<>>
    /\ fi = 1
    /\ ri = 1
    /\ active = {}
    /\ before = {}
    /\ pending = <<>>
    /\ best_result = PendingResult
    /\ api_hits = 0
    /\ places_api_enabled = TRUE
    /\ city_coords_cache = <<>>
    /\ called = FALSE
    /\ failed = {}
    /\ reply = Answered(NoAnswer)
    /\ is_final = FALSE

NextLoaded ==
    \/ RunLoad
    \/ MergeRecord \/ MergePrune
    \/ SelectPending
    \/ GeoCity \/ GeoPlaces \/ GeoBB \/ GeoDetails \/ GeoAddr1 \/ GeoAddr2
    \/ DedupSpatial \/ DedupText
    \/ SaveOpen \/ SaveDump \/ SaveMove
    \/ Wait

SpecLoaded == InitLoaded /\ [][NextLoaded]_vars

------------------------------------------------------------------------------
(* The key experiments: generate_unique_id applied to bounded inputs *)

MaxEdits == 2

KeyNames == {"Sri H", "SRI. H", "Om", ""}
KeyPins == {"411001", " 411001 ", "4110  ", "nan", "", "411_01", "411002"}
KeyCities == {"Pune", " pune.", ""}
PunctChars == {" ", ".", "-"}

KeyInputs == [name : KeyNames, pin : KeyPins, city : KeyCities]

\* "^" is written for the letter U+212A (KELVIN SIGN), which a module cannot
\* hold: as "^" is, it is left alone by str.upper() and is outside [A-Z0-9];
\* its lower case is "k"
KelvinSign == "^"

\* the inputs whose names are edited
EditNames == {"Sri H", "a.b", "Om 2", "^2"}
EditInputs == [name : EditNames, pin : {"411001", "nan", ""}, city : {"Pune", ""}]

\* the letter in its other case
ToggleCase(c) ==
    IF c = KelvinSign THEN "k"
    ELSE IF IsLowerChar(c) THEN UpperChar(c) ELSE LowerChar(c)

InitKeyEdit ==
    /\ pc = "key"
    /\ kA \in EditInputs
    /\ kB = kA
    /\ kKeyA = NoKey
    /\ kKeyB = NoKey
    /\ kEdits = 0
    /\ IdleDedup
    /\ IdlePipeline

InitKeyPair ==
    /\ pc = "key"
    /\ kA \in KeyInputs
    /\ kB \in KeyInputs
    /\ kKeyA = NoKey
    /\ kKeyB = NoKey
    /\ kEdits = 0
    /\ IdleDedup
    /\ IdlePipeline

\* both keys are computed
KeyGenerate ==
    /\ pc = "key"
    /\ kKeyA = NoKey
    /\ kKeyA' = generate_unique_id(kA.name, kA.pin, kA.city)
    /\ kKeyB' = generate_unique_id(kB.name, kB.pin, kB.city)
    /\ UNCHANGED <<pc, kA, kB, kEdits, dedupVars, fileVars, mergeVars, geoVars, envVars,
                   data, is_final>>

KeyRename(newName) ==
    /\ kB' = [kB EXCEPT !.name = newName]
    /\ kKeyB' = generate_unique_id(newName, kB.pin, kB.city)
    /\ kEdits' = kEdits + 1
    /\ UNCHANGED <<pc, kA, kKeyA, dedupVars, fileVars, mergeVars, geoVars, envVars,
                   data, is_final>>

\* the case of one letter of the name changes, and the key is computed again
KeyEditCase ==
    /\ pc = "key"
    /\ kKeyA # NoKey
    /\ kEdits < MaxEdits
    /\ \E i \in 1..Len(kB.name) :
        /\ ToggleCase(CharAt(kB.name, i)) # CharAt(kB.name, i)
        /\ KeyRename(SubSeq(kB.name, 1, i - 1) \o ToggleCase(CharAt(kB.name, i))
                     \o SubSeq(kB.name, i + 1, Len(kB.name)))

\* a non-alphanumeric character is inserted into the name
KeyInsertPunct ==
    /\ pc = "key"
    /\ kKeyA # NoKey
    /\ kEdits < MaxEdits
    /\ \E i \in 0..Len(kB.name), c \in PunctChars :
        KeyRename(SubSeq(kB.name, 1, i) \o c \o SubSeq(kB.name, i + 1, Len(kB.name)))

\* a non-alphanumeric character is removed from the name
KeyRemovePunct ==
    /\ pc = "key"
    /\ kKeyA # NoKey
    /\ kEdits < MaxEdits
    /\ \E i \in 1..Len(kB.name) :
        /\ CharAt(kB.name, i) \in PunctChars
        /\ KeyRename(SubSeq(kB.name, 1, i - 1) \o SubSeq(kB.name, i + 1, Len(kB.name)))

NextKeyEdit == KeyGenerate \/ KeyEditCase \/ KeyInsertPunct \/ KeyRemovePunct
NextKeyPair == KeyGenerate

SpecKeyEdit == InitKeyEdit /\ [][NextKeyEdit]_vars
SpecKeyPair == InitKeyPair /\ [][NextKeyPair]_vars

------------------------------------------------------------------------------
(* The deduplication experiments: deduplicate_data applied to bounded registries *)

MaxRegistry == 3

\* an entity of Pune as the geocoding loop leaves it
Entity(name, address, pin, companies, lat, lng, accuracy) ==
    [uid |-> generate_unique_id(name, pin, "Pune"), name |-> name, address |-> address,
     city |-> "Pune", state |-> "MH", pincode |-> pin, excluded_by |-> companies,
     lat |-> lat, lng |-> lng, accuracy |-> accuracy, needs_update |-> FALSE]

\* X at (18.52001, 73.85601), a place found
EX == Entity("Sri Hospital", "12 MG Rd", "411001", <<"Apex">>, 18520010, 73856010, "HIGH")
\* Y at (18.52000, 73.85602), a street found
EY == Entity("Sri Clinic", "14 Camp Road", "411001", <<"Bima">>, 18520000, 73856020, "LOW")
\* two entities within a metre of X: (18.520013, 73.856008) and (18.520012, 73.856012)
EZ == Entity("Metro Hospital", "Plot 5, Camp Road", "", <<"Bima">>, 18520013, 73856008, "LOW")
EW == Entity("Lotus Clinic", "", "411002", <<"Apex", "Bima">>, 18520012, 73856012, "HIGH")
\* two entities at the city centre
EA1 == Entity("Sri Care", "Station Rd", "411001", <<"Bima">>, 18520400, 73856700, "APPROXIMATE")
EA2 == Entity("Apollo Hospitals", "FC Road", "411002", <<"Apex">>, 18520400, 73856700,
              "APPROXIMATE")
\* entities that no call located: without pin, with a pin, with a pin of six
\* characters that is no number
EP1 == Entity("Metro Clinic", "", "", <<"Apex">>, 0, 0, "Pending")
EP2 == Entity("Sri Nursing Home", "", "411001", <<"Bima">>, 0, 0, "Pending")
EP3 == Entity("Lotus Care", "", "41100A", <<"Apex">>, 0, 0, "Pending")
\* an entity located, with the pin of EP3
EM == Entity("Lotus Hospital", "9 Hill Rd", "41100A", <<"Bima">>, 19076010, 72877710, "LOW")

\* an entity that no call located, and three located entities of its pin whose
\* names score 16/19, 20/27 + 0.2 and 1 + 0.2 against its name
EC == Entity("Sanjeevani Hospital", "", "411003", <<"Apex">>, 0, 0, "Pending")
ES == Entity("Sanjivani Hospital", "3 Lake Rd", "411003", <<"Bima">>, 18530010, 73860010, "HIGH")
EB == Entity("Sanjeevani Medical", "5 Lake Rd", "411003", <<"Bima">>, 18531010, 73861010, "LOW")
EN == Entity("Sanjeevani", "7 Lake Rd", "411003", <<"Bima">>, 18532010, 73862010, "LOW")

EntityPool == {EX, EY, EZ, EW, EA1, EA2, EP1, EP2, EP3, EM, EC, ES, EB, EN}

\* two pairs of hospitals, each pair at one place, listed by the two companies
\* in opposite orders
EG1 == Entity("Alpha Hospital", "1 A Rd", "411001", <<"Apex">>, 18600010, 73800010, "HIGH")
EG2 == Entity("Alpha Clinic", "1 A Road East", "411001", <<"Bima">>, 18600010, 73800010, "LOW")
EG3 == Entity("Beta Hospital", "2 B Rd", "411002", <<"Bima">>, 18700010, 73900010, "HIGH")
EG4 == Entity("Beta Clinic", "2 B", "411002", <<"Apex">>, 18700010, 73900010, "LOW")

\* a candidate and two masters of its postal code whose scores are one number,
\* 32/35: the ratio 32/35 of the first, the ratio 20/28 plus 0.2 of the second
ET == Entity("Abcdefghijklmnopqr", "", "411006", <<"Apex">>, 0, 0, "Pending")
ET1 == Entity("Abcdefghijklmnopz", "5 E Rd", "411006", <<"Bima">>, 18910010, 73110010, "LOW")
ET2 == Entity("Abcdefghij", "6 F Rd", "411006", <<"Bima">>, 18920010, 73120010, "LOW")

\* a name of 200 characters, each of which occurs in it more than
\* 200 // 100 + 1 = 3 times
LongName ==
    "xjkzwbvgzbfdkvgqwdxgbgqjfqfdfxxvffbbggffjkgwzzgfgq"
    \o "jbkqffjdkjxxbxzkdjkjvkfvvfbjbkqbwqkqxbvbfxgdgvkwkw"
    \o "jvdxkjbqdgkwxkfkjwdjzkjfdzfjvfbdxwqbgxkjvzqfbzbvkg"
    \o "fxfzqdfqkfbqjfvxfwvvkvjjvqfdqwfzvkfdvjwwwkdkxzbjkw"

\* a located entity of that name, and two entities of its pin that no call
\* located, named with one character more, in front and at the end
EL == Entity(LongName, "8 G Rd", "411007", <<"Bima">>, 18940010, 73140010, "LOW")
EL0 == Entity("0" \o LongName, "", "411007", <<"Apex">>, 0, 0, "Pending")
EL1 == Entity(LongName \o "0", "", "411007", <<"Apex">>, 0, 0, "Pending")

\* registries of those
ParticularRegistries ==
    {<<EG1, EG2, EG3, EG4>>, <<EG4, EG2, EG1, EG3>>,
     <<ET, ET1, ET2>>, <<ET, ET2, ET1>>, <<ET1, ET2, ET>>,
     <<EL0, EL>>, <<EL1, EL>>, <<EL0, EL1, EL>>}

\* the registries of one to MaxRegistry entities of the pool, in any order,
\* and the particular ones
DedupRegistries ==
    {d \in UNION {[1..n -> EntityPool] : n \in 1..MaxRegistry} :
        \A i, j \in 1..Len(d) : d[i].uid = d[j].uid => i = j}
    \cup ParticularRegistries

InitDedup ==
    /\ pc = "dd_new"
    /\ dReg \in DedupRegistries
    /\ dSpatial = <<>>
    /\ dOnce = <<>>
    /\ dTwice = <<>>
    /\ set_order = NoOrder
    /\ IdleKey
    /\ IdlePipeline

\* deduplicate_data, line 704, on the registry dReg
DedupFirstSpatial ==
    /\ pc = "dd_new"
    /\ \E order \in SetOrders :
        /\ dSpatial' = _deduplicate_spatial(dReg, order)
        /\ set_order' = OrderSeen(NoOrder, order, dReg, dSpatial')
    /\ pc' = "dd_spatial"
    /\ UNCHANGED <<kA, kB, kKeyA, kKeyB, kEdits, dReg, dOnce, dTwice, fileVars, mergeVars,
                   geoVars, envVars, data, is_final>>

\* deduplicate_data, line 706
DedupFirstText ==
    /\ pc = "dd_spatial"
    /\ \E order \in OrdersLeft(set_order) :
        /\ dOnce' = _deduplicate_with_text(dSpatial, order)
        /\ set_order' = OrderSeen(set_order, order, dSpatial, dOnce')
    /\ pc' = "dd_once"
    /\ UNCHANGED <<kA, kB, kKeyA, kKeyB, kEdits, dReg, dSpatial, dTwice, fileVars,
                   mergeVars, geoVars, envVars, data, is_final>>

\* deduplicate_data is run again at once, both passes
DedupAgain ==
    /\ pc = "dd_once"
    /\ \E order \in OrdersLeft(set_order) :
        dTwice' = _deduplicate_with_text(_deduplicate_spatial(dOnce, order), order)
    /\ pc' = "dd_twice"
    /\ UNCHANGED <<kA, kB, kKeyA, kKeyB, kEdits, dReg, dSpatial, dOnce, set_order, fileVars,
                   mergeVars, geoVars, envVars, data, is_final>>

NextDedup == DedupFirstSpatial \/ DedupFirstText \/ DedupAgain

SpecDedup == InitDedup /\ [][NextDedup]_vars

------------------------------------------------------------------------------
(* The save experiments: save_to_disk applied to bounded registries *)

\* two hospitals of one name and no postal code, in two cities
EO1 == Entity("Om Clinic", "Station Rd", "", <<"Bima">>, 0, 0, "Pending")
EO2 ==
    [EO1 EXCEPT !.city = "Mumbai", !.address = "Link Rd",
                !.uid = generate_unique_id("Om Clinic", "", "Mumbai")]
\* an entity that a second company reported after the first
EV == Entity("apollo Clinic", "FC Road", " 411002", <<"Bima", "Apex">>, 18540010, 73870010, "LOW")

SavePool == {EX, EM, EP1, EV, EO1, EO2}

\* the registries of one to MaxRegistry entities of the pool, in any order
SaveRegistries ==
    {d \in UNION {[1..n -> SavePool] : n \in 1..MaxRegistry} :
        \A i, j \in 1..Len(d) : d[i].uid = d[j].uid => i = j}

InitSave ==
    /\ pc = "sv_new"
    /\ dReg \in SaveRegistries
    /\ dSpatial = <<>>
    /\ dOnce = <<>>
    /\ dTwice = <<>>
    /\ set_order = NoOrder
    /\ IdleKey
    /\ IdlePipeline

\* save_to_disk, lines 857-888, on the registry dReg: the list written to TEMP_FILE
SaveRegistry ==
    /\ pc = "sv_new"
    /\ tempFile' = FileContent(CleanList(dReg), TRUE)
    /\ pc' = "sv_saved"
    /\ UNCHANGED <<keyVars, outFile, prevOut, faults, mergeVars, geoVars, envVars, data,
                   is_final>>

NextSave == SaveRegistry

SpecSave == InitSave /\ [][NextSave]_vars

------------------------------------------------------------------------------
(* The claims about generate_unique_id *)

\* C4: generate_unique_id returns the same key when the name is changed only
\* in letter case or only by inserting or removing non-alphanumeric characters
\* (spaces, dots, hyphens), the pin and the city held fixed: the key of the
\* edited name kB.name is the key of the name kA.name it was edited from.
C4_KeyUnchangedByEdits ==
    kKeyA # NoKey => kKeyB = kKeyA

\* the name with the characters outside [A-Za-z0-9] left out, the others in upper case
RECURSIVE ExpectedClean(_, _)
ExpectedClean(s, i) ==
    IF i > Len(s) THEN ""
    ELSE (IF IsUpperChar(CharAt(s, i)) \/ IsLowerChar(CharAt(s, i)) \/ IsDigitChar(CharAt(s, i))
          THEN UpperChar(CharAt(s, i)) ELSE "")
         \o ExpectedClean(s, i + 1)

\* the postal code without the blanks around it
ExpectedPin(pin) ==
    LET inked == {i \in 1..Len(pin) : CharAt(pin, i) # " "}
        first == CHOOSE i \in inked : \A j \in inked : i <= j
        last == CHOOSE i \in inked : \A j \in inked : i >= j
    IN  IF inked = {} THEN "" ELSE SubSeq(pin, first, last)

Placeholders == {"nan", "none", ""}

ExpectedSuffix(in) ==
    IF Len(ExpectedPin(in.pin)) >= 6 /\ StrLower(ExpectedPin(in.pin)) \notin Placeholders
    THEN ExpectedPin(in.pin)
    ELSE ExpectedClean(in.city, 1)

ExpectedKey(in) == ExpectedClean(in.name, 1) \o "_" \o ExpectedSuffix(in)

\* C5: generate_unique_id returns CLEANNAME_SUFFIX, CLEANNAME the upper-cased
\* name without the characters outside [A-Z0-9], SUFFIX the postal code (blanks
\* around it trimmed) when it has 6 characters or more and is no placeholder
\* ("nan", "none", ""), else the cleaned upper-cased city; and two records get
\* the same key if and only if their cleaned names and their suffixes are equal.
C5_KeyStructure ==
    kKeyA # NoKey =>
        /\ kKeyA = ExpectedKey(kA)
        /\ kKeyB = ExpectedKey(kB)
        /\ (kKeyA = kKeyB) <=>
               /\ ExpectedClean(kA.name, 1) = ExpectedClean(kB.name, 1)
               /\ ExpectedSuffix(kA) = ExpectedSuffix(kB)

\* two records that differ in the case and punctuation of the name and in
\* the blanks of the pin got the same key, and two with short pins got the city's
C5_Witness ==
    /\ kKeyA # NoKey
    /\ kA.name = "Sri H" /\ kB.name = "SRI. H"
    /\ kA.pin = " 411001 " /\ kB.pin = "411001"
    /\ kA.city # kB.city
    /\ kKeyA = "SRIH_411001"
    /\ kKeyB = kKeyA

------------------------------------------------------------------------------
(* The claims about ingestion *)

\* a record that _process_source_record does not skip
ValidRecord(r) ==
    Strip(r.name) # "" /\ Strip(r.name) # "Hospital Name" /\ Strip(r.pin) # "Pincode"

RecordKey(r) == generate_unique_id(r.name, r.pin, r.city)

\* the valid records read from a file before reading it fails
ReadRecords(f) ==
    {r \in {f.records[i] : i \in 1..Processed(f)} : ValidRecord(r)}

\* the companies whose current file lists uid
ReportedBy(files, uid) ==
    {files[k].company :
        k \in {j \in 1..Len(files) : \E r \in ReadRecords(files[j]) : RecordKey(r) = uid}}

\* the keys the current files list
ReportedKeys(files) ==
    UNION {{RecordKey(r) : r \in ReadRecords(files[k])} : k \in 1..Len(files)}

\* C1: when a source record is ingested, every entity of accuracy HIGH keeps
\* its address, city, state and postal code (and its coordinates and accuracy),
\* its needs_update flag is not changed, and its sources change by gaining the
\* reporting company only, and only when the record maps to the entity's id.
C1_HighSticky ==
    [][(pc = "merge" /\ fi <= Len(dir) /\ pc' # "killed") =>
        \A i \in 1..Len(data) :
            data[i].accuracy = "HIGH" =>
                LET rec == dir[fi].records[ri]
                    hit == ValidRecord(rec) /\ RecordKey(rec) = data[i].uid
                IN  /\ i <= Len(data')
                    /\ data'[i].uid = data[i].uid
                    /\ data'[i].name = data[i].name
                    /\ data'[i].address = data[i].address
                    /\ data'[i].city = data[i].city
                    /\ data'[i].state = data[i].state
                    /\ data'[i].pincode = data[i].pincode
                    /\ data'[i].lat = data[i].lat
                    /\ data'[i].lng = data[i].lng
                    /\ data'[i].accuracy = "HIGH"
                    /\ data'[i].needs_update = data[i].needs_update
                    /\ SeqToSet(data'[i].excluded_by)
                         = SeqToSet(data[i].excluded_by)
                           \cup (IF hit THEN {dir[fi].company} ELSE {})]_vars

\* a HIGH entity of an earlier run has just been reported by Bima with the
\* address "14 Camp Road": it keeps "12 MG Rd" and gains Bima
C1_Witness ==
    /\ pc = "merge"
    /\ runs = 2
    /\ dir = <<SourceFile("Bima", <<R3, R7>>, NoFail)>>
    /\ fi = 1 /\ ri = 2
    /\ \E i \in 1..Len(data) :
        /\ data[i].uid = "SRIHOSPITAL_411001"
        /\ data[i].accuracy = "HIGH"
        /\ data[i].address = "12 MG Rd"
        /\ ~data[i].needs_update
        /\ data[i].excluded_by = <<"Apex", "Bima">>

\* C2 as claimed: after merge_sources, an entity that was in the registry
\* before the pass is still in it if and only if a current source file lists
\* its key, also when there is no source file at all.
C2_PrunedUnlessListed ==
    pc = "select" =>
        \A uid \in before : DictHas(data, uid) <=> uid \in ReportedKeys(dir)

\* C2, amended: after a merge_sources that found source files, an entity that
\* was in the registry before the pass is still in it if and only if a valid
\* record with its key was read from a current file; a merge_sources that
\* finds no source file leaves the registry as it was loaded.
C2_PrunedWhenFilesPresent ==
    pc = "select" =>
        IF dir = <<>>
        THEN data = load_existing_data(outFile)
        ELSE \A uid \in before : DictHas(data, uid) <=> uid \in ReportedKeys(dir)

\* a pass over a file that lists one of two registered entities has pruned
\* the other and kept the one
C2_Witness ==
    /\ pc = "select"
    /\ dir # <<>>
    /\ \E uid \in before : ~DictHas(data, uid) /\ uid \notin ReportedKeys(dir)
    /\ \E uid \in before : DictHas(data, uid) /\ uid \in ReportedKeys(dir)

\* C3: the registry never holds two entities under one key and no entity
\* lists a source twice; after an ingestion pass over source files the
\* registry holds exactly the keys the files list, each entity under the key
\* of its own name, postal code and city, its sources holding every company
\* whose file lists the key.
C3_OneEntityPerKey ==
    /\ \A i, j \in 1..Len(data) : data[i].uid = data[j].uid => i = j
    /\ \A i \in 1..Len(data) :
        Cardinality(SeqToSet(data[i].excluded_by)) = Len(data[i].excluded_by)
    /\ (pc = "select" /\ dir # <<>>) =>
        /\ DictKeys(data) = ReportedKeys(dir)
        /\ \A i \in 1..Len(data) :
            /\ generate_unique_id(data[i].name, data[i].pincode, data[i].city) = data[i].uid
            /\ ReportedBy(dir, data[i].uid) \subseteq SeqToSet(data[i].excluded_by)

\* 'Sri Hospital'/411001 of Apex and 'SRI. HOSPITAL'/411001, without address,
\* of Bima have been folded into one entity
C3_Witness ==
    /\ pc = "select"
    /\ dir = <<SourceFile("Apex", <<R1>>, NoFail), SourceFile("Bima", <<R2>>, NoFail)>>
    /\ Len(data) = 1
    /\ data[1].uid = "SRIHOSPITAL_411001"
    /\ data[1].name = "Sri Hospital"
    /\ data[1].address = "12 MG Rd"
    /\ data[1].excluded_by = <<"Apex", "Bima">>

\* C6: after an ingestion pass over source files, the sources of every entity
\* are exactly the companies whose current file lists the entity's key.
C6_SourcesAreCurrent ==
    (pc = "select" /\ dir # <<>>) =>
        \A i \in 1..Len(data) :
            SeqToSet(data[i].excluded_by) = ReportedBy(dir, data[i].uid)

------------------------------------------------------------------------------
(* The claims about the whole run *)

\* the items of the registry file and of the temporary file
PersistedItems ==
    {outFile.items[i] : i \in 1..Len(outFile.items)}
    \cup {tempFile.items[i] : i \in 1..Len(tempFile.items)}

\* C7: every entity has a non-empty sources list, in the registry in memory
\* at every step (ingestion, geocoding, deduplication) and in every file
\* written, checkpoint or final.
C7_SourcesNeverEmpty ==
    /\ \A i \in 1..Len(data) : data[i].excluded_by # <<>>
    /\ \A item \in PersistedItems : item.excluded_by # <<>>

\* deduplication has merged the clinic that Bima lists into the hospital that
\* Apex lists, and the survivor, with the sources of both, is in the final file
C7_Witness ==
    /\ pc = "done"
    /\ active = {"SRIHOSPITAL_411001", "OMCLINIC_PUNE"}
    /\ Len(data) = 1
    /\ data[1].uid = "SRIHOSPITAL_411001"
    /\ data[1].excluded_by = <<"Apex", "Bima">>
    /\ outFile = FileContent(CleanList(data), TRUE)

\* C8 as claimed: in every state of a run that starts from a registry of which
\* this holds, an entity's coordinates are unset (lat or lng is 0.0) only if
\* its accuracy is Pending, NoKey or Failed, in memory and in the files,
\* whatever the geocoding calls answer.
C8_LocationMatchesAccuracy ==
    /\ \A i \in 1..Len(data) :
        (data[i].lat = 0 \/ data[i].lng = 0)
            => data[i].accuracy \in {"Pending", "NoKey", "Failed"}
    /\ \A item \in PersistedItems :
        (item.lat = 0 \/ item.lng = 0) => item.accuracy \in {"Pending", "NoKey", "Failed"}

\* C9: at every point of save_to_disk, and after it, whatever step fails,
\* the registry file holds the complete list last committed or the complete
\* new list, never a part of one; a temporary file whose writing failed is
\* never moved over it.
C9_AtomicPersistence ==
    /\ outFile.exists => outFile.complete
    /\ outFile = prevOut \/ outFile = FileContent(CleanList(data), TRUE)
    /\ (pc = "save_move" => tempFile = FileContent(CleanList(data), TRUE))

\* the final save of the second run failed while writing: a part of the new
\* list is left in the temporary file and the registry file is that of run 1
C9_Witness ==
    /\ pc = "done"
    /\ runs = 2
    /\ faults = 1
    /\ tempFile.exists /\ ~tempFile.complete
    /\ Len(tempFile.items) = 1
    /\ Len(data) = 2
    /\ outFile.exists /\ outFile.complete
    /\ outFile = prevOut
    /\ outFile # FileContent(CleanList(data), TRUE)

\* the items of the registry file that need resolution
NeedResolution(file) ==
    {item \in {file.items[i] : i \in 1..Len(file.items)} :
        item.lat = 0 \/ item.accuracy = "Pending"}

\* C10 as claimed: a run without API key ends with every entity that needs
\* resolution at accuracy NoKey.
C10_NoKeyAccuracy ==
    (pc = "done" /\ ~apiKey) =>
        /\ \A item \in NeedResolution(outFile) : item.accuracy = "NoKey"
        /\ \A i \in 1..Len(data) :
            (data[i].lat = 0 \/ data[i].accuracy = "Pending") => data[i].accuracy = "NoKey"

------------------------------------------------------------------------------
(* The claims about deduplication *)

DedupStages == {"dd_spatial", "dd_once", "dd_twice"}

\* an entity with coordinates of one of the ranked tiers
RankedResolved(rec) ==
    rec.accuracy \in {"HIGH", "MEDIUM", "LOW"} /\ rec.lat # 0 /\ rec.lng # 0

\* an entity with coordinates, of any tier
AnyTierResolved(rec) ==
    rec.accuracy \in {"HIGH", "LOW", "APPROXIMATE"} /\ rec.lat # 0 /\ rec.lng # 0

\* a coordinate rounded to five decimals
FiveDecimals(x) == (x + 5) \div 10

SameCoordKey(a, b) ==
    FiveDecimals(a.lat) = FiveDecimals(b.lat) /\ FiveDecimals(a.lng) = FiveDecimals(b.lng)

TierRank(rec) ==
    CASE rec.accuracy = "HIGH" -> 3
      [] rec.accuracy = "MEDIUM" -> 2
      [] rec.accuracy = "LOW" -> 1
      [] OTHER -> 0

\* a ranks above b: by tier, then by the length of the name
Outranks(a, b) ==
    \/ TierRank(a) > TierRank(b)
    \/ TierRank(a) = TierRank(b) /\ Len(a.name) > Len(b.name)

\* C11: deduplicate_data (spatial pass, then textual pass) run a second time
\* at once after a first run merges nothing and leaves the registry as it is:
\* the same ids and the same fields of every entity.
C11_MergeIdempotent ==
    pc = "dd_twice" => dTwice = dOnce

\* both passes of the first run merged an entity away, and the second run
\* changed nothing
C11_Witness ==
    /\ pc = "dd_twice"
    /\ Len(dReg) = 3
    /\ Len(dSpatial) = 2
    /\ Len(dOnce) = 1
    /\ dTwice = dOnce

\* C12 as claimed: X at (18.52001, 73.85601), HIGH, and Y at (18.52000,
\* 73.85602), LOW, are merged by the spatial pass into one entity, which has
\* the coordinates and the accuracy of X.
C12_XYMerged ==
    (pc \in DedupStages /\ {EX, EY} \subseteq SeqToSet(dReg)) =>
        LET left == {i \in 1..Len(dSpatial) : dSpatial[i].uid \in {EX.uid, EY.uid}} IN
        /\ Cardinality(left) = 1
        /\ \A i \in left :
            /\ dSpatial[i].lat = EX.lat
            /\ dSpatial[i].lng = EX.lng
            /\ dSpatial[i].accuracy = EX.accuracy

\* C12, amended: X and Y differ in the fifth decimal of both coordinates, so
\* they have different coordinate keys and the spatial pass does not merge
\* them: Y is left as it was.  Whenever the spatial pass merges entities
\* (those whose coordinates round to the same five decimals), the survivor is
\* one of them that none of them outranks, with its own name, coordinates
\* and accuracy, and with the sources of all of them.
C12_SpatialKeepsBest ==
    pc \in DedupStages =>
        /\ {EX, EY} \subseteq SeqToSet(dReg) => \E j \in 1..Len(dSpatial) : dSpatial[j] = EY
        /\ \A j \in 1..Len(dSpatial) :
            \E i \in 1..Len(dReg) :
                LET group == {k \in 1..Len(dReg) :
                                \/ k = i
                                \/ /\ RankedResolved(dReg[i]) /\ RankedResolved(dReg[k])
                                   /\ SameCoordKey(dReg[i], dReg[k])}
                IN  /\ dSpatial[j].uid = dReg[i].uid
                    /\ dSpatial[j].name = dReg[i].name
                    /\ dSpatial[j].lat = dReg[i].lat
                    /\ dSpatial[j].lng = dReg[i].lng
                    /\ dSpatial[j].accuracy = dReg[i].accuracy
                    /\ \A k \in group : ~Outranks(dReg[k], dReg[i])
                    /\ SeqToSet(dSpatial[j].excluded_by)
                         = UNION {SeqToSet(dReg[k].excluded_by) : k \in group}

\* the spatial pass ran on a LOW entity within a metre of X, then X, then Y:
\* X absorbed the first and has its sources, and Y is as it was
C12_Witness ==
    /\ pc = "dd_spatial"
    /\ dReg = <<EZ, EX, EY>>
    /\ Len(dSpatial) = 2
    /\ dSpatial[1].uid = EX.uid
    /\ dSpatial[1].lat = EX.lat /\ dSpatial[1].lng = EX.lng
    /\ dSpatial[1].accuracy = "HIGH"
    /\ SeqToSet(dSpatial[1].excluded_by) = {"Apex", "Bima"}
    /\ dSpatial[2] = EY

\* C13 as claimed: after the spatial pass no two entities with coordinates,
\* of whatever tier (HIGH, LOW or APPROXIMATE), have the same coordinate key.
C13_NoSharedKeyAnyTier ==
    pc \in DedupStages =>
        \A i, j \in 1..Len(dSpatial) :
            (i # j /\ AnyTierResolved(dSpatial[i]) /\ AnyTierResolved(dSpatial[j]))
                => ~SameCoordKey(dSpatial[i], dSpatial[j])

\* C13, amended: after the spatial pass no two entities with coordinates of
\* the tiers HIGH, MEDIUM and LOW have the same coordinate key: all those that
\* shared one have collapsed into one entity.  The other entities
\* (APPROXIMATE, Pending, or with a coordinate unset) are not grouped: each is
\* left as it was, whatever coordinates it shares.
C13_NoSharedKeyRanked ==
    pc \in DedupStages =>
        /\ \A i, j \in 1..Len(dSpatial) :
            (i # j /\ RankedResolved(dSpatial[i]) /\ RankedResolved(dSpatial[j]))
                => ~SameCoordKey(dSpatial[i], dSpatial[j])
        /\ \A i \in 1..Len(dReg) :
            ~RankedResolved(dReg[i]) => \E j \in 1..Len(dSpatial) : dSpatial[j] = dReg[i]
        /\ Len(dSpatial)
             = Cardinality({i \in 1..Len(dReg) : ~RankedResolved(dReg[i])})
               + Cardinality({<<FiveDecimals(dReg[i].lat), FiveDecimals(dReg[i].lng)>> :
                                i \in {k \in 1..Len(dReg) : RankedResolved(dReg[k])}})

\* three entities within a metre of each other have collapsed into one
C13_Witness ==
    /\ pc = "dd_spatial"
    /\ dReg = <<EX, EZ, EW>>
    /\ Len(dSpatial) = 1
    /\ dSpatial[1].uid = EX.uid
    /\ dSpatial[1].accuracy = "HIGH"

\* the source records of the entities of d that list company
RECURSIVE RecordsOf(_, _)
RecordsOf(d, company) ==
    IF d = <<>> THEN <<>>
    ELSE (IF SeqContains(Head(d).excluded_by, company)
          THEN <<[name |-> Head(d).name, address |-> Head(d).address,
                  city |-> Head(d).city, state |-> Head(d).state,
                  pin |-> Head(d).pincode]>>
          ELSE <<>>)
         \o RecordsOf(Tail(d), company)

\* source files that report the entities of d
ReportingFiles(d) ==
    <<SourceFile("Apex", RecordsOf(d, "Apex"), NoFail),
      SourceFile("Bima", RecordsOf(d, "Bima"), NoFail)>>

\* an entity without coordinates, Pending, whose postal code the textual pass
\* does not hold valid: none, or one shorter than six characters once trimmed
UnlocatedNoPin(rec) ==
    /\ Len(ExpectedPin(rec.pincode)) < 6
    /\ rec.accuracy = "Pending"
    /\ rec.lat = 0 /\ rec.lng = 0

\* C18: an entity with no valid postal code (none, or one shorter than six
\* characters) and accuracy Pending, without coordinates, is left as it was by
\* the spatial pass and by the textual pass, neither merged into another
\* entity nor deleted; it stays in the registry Pending, and the next run,
\* whose source files still report it, selects it for geocoding again.
C18_PendingLeftAlone ==
    pc = "dd_once" =>
        \A i \in 1..Len(dReg) :
            UnlocatedNoPin(dReg[i]) =>
                /\ \E j \in 1..Len(dSpatial) : dSpatial[j] = dReg[i]
                /\ \E j \in 1..Len(dOnce) : dOnce[j] = dReg[i]
                /\ dReg[i].uid \in SeqToSet(PendingItems(
                        NextRunRegistry(FileContent(CleanList(dOnce), TRUE),
                                        ReportingFiles(dReg))))

\* 'Metro Clinic', Pending without pin, is still in the registry after both
\* passes, which merged 'Metro Hospital', also without pin, into another entity
C18_Witness ==
    /\ pc = "dd_once"
    /\ EP1 \in SeqToSet(dReg)
    /\ EZ \in SeqToSet(dReg)
    /\ EP1 \in SeqToSet(dOnce)
    /\ Len(dOnce) < Len(dReg)

------------------------------------------------------------------------------
(* The claims about failures, retries and interruption *)

\* the ingestion of a run, taken step by step, is merge_sources
MergeAgrees ==
    pc = "select" => data = NextRunRegistry(outFile, dir)

\* the uids that the next run selects for geocoding, the source files unchanged
NextRunPending == SeqToSet(PendingItems(NextRunRegistry(outFile, dir)))

\* C14 as claimed: an entity selected for geocoding for which the resolver
\* obtained no coordinates in a run is selected again by the next run over the
\* same source files, whatever accuracy and coordinates it had before (an
\* entity that deduplication has merged away, and that no source brings
\* back, is not looked at).
C14_FailedIsRetried ==
    (pc = "done" /\ apiKey) =>
        \A uid \in failed :
            DictHas(NextRunRegistry(outFile, dir), uid) => uid \in NextRunPending

\* C15 as claimed: after a complete run, the ingestion of the next run over the
\* same source files inserts no entity and flags no entity for geocoding.
C15_ReingestIsIdle ==
    (pc = "done" /\ apiKey /\ outFile = FileContent(CleanList(data), TRUE)) =>
        LET loaded == load_existing_data(outFile)
            next == NextRunRegistry(outFile, dir)
        IN  /\ DictKeys(next) \subseteq DictKeys(loaded)
            /\ \A i \in 1..Len(next) : ~next[i].needs_update

\* the place of a call in the cascade
CallRank ==
    [city |-> 1, places |-> 2, bb |-> 3, details |-> 4, addr1 |-> 5, addr2 |-> 6]

\* C16: whatever fails at an outbound call of the cascade (an exception, a
\* timeout, a denied or empty answer), fetch_geocoding does not raise: either
\* the cascade goes on to a later call for the same entity, nothing else
\* changed, or fetch_geocoding returns, the entity stays in the registry, the
\* hit is counted and the loop goes on, through a checkpoint when one is due
\* and then its wait, to the next entity (to deduplication after the last);
\* and it returns without coordinates only when the city fallback had no city
\* centre to give. (A step to killed is the process ended by a signal.)
C16_ResolverNeverFails ==
    [][/\ (pc \in CallPositions /\ pc' \notin {"blocked", "killed"}) =>
            \/ /\ pc' \in CallPositions
               /\ CallRank[pc'] > CallRank[pc]
               /\ pending' = pending
               /\ data' = data
               /\ api_hits' = api_hits
            \/ /\ pending' = Tail(pending)
               /\ api_hits' = api_hits + 1
               /\ DictKeys(data') = DictKeys(data)
               /\ pc' = IF api_hits' % SAVE_INTERVAL = 0 THEN "save_open" ELSE "wait"
               /\ Head(pending) \in failed' =>
                    LET key == CityKey(ExpectedPin(DictGet(data, Head(pending)).city),
                                       ExpectedPin(DictGet(data, Head(pending)).state))
                    IN  \/ best_result.lat # 0
                        \/ ~Cached(city_coords_cache', key)
                        \/ ~city_coords_cache'[key].found
       /\ (pc = "wait" /\ pc' # "killed") =>
            /\ pc' \in CallPositions \cup {"dedup"}
            /\ pc' = "dedup" <=> pending = <<>>
            /\ UNCHANGED <<pending, data, api_hits>>]_vars

\* every call for a first entity failed, the place search being denied, and
\* the loop is at a call for the second entity
C16_Witness ==
    /\ pc \in CallPositions
    /\ api_hits = 1
    /\ Len(pending) = 1
    /\ failed # {}
    /\ ~places_api_enabled
    /\ \E i \in 1..Len(data) :
        data[i].uid \in failed /\ data[i].accuracy = "Pending" /\ data[i].lat = 0

\* the keys that the files list, read or not
ListedKeys(files) ==
    UNION {{RecordKey(files[k].records[i]) :
                i \in {j \in 1..Len(files[k].records) : ValidRecord(files[k].records[j])}} :
           k \in 1..Len(files)}

\* C17: when reading a source file fails, merge_sources goes on: every valid
\* record of every file read without failure is in the registry, listing the
\* file's company; an entity of the registry that only files that failed
\* list (in the part of them not read) is pruned in that pass, and one that a
\* file read lists is kept.
C17_FailedFileIsolated ==
    (pc = "select" /\ dir # <<>>) =>
        /\ \A k \in 1..Len(dir) :
            dir[k].fail = NoFail =>
                \A r \in {dir[k].records[i] : i \in 1..Len(dir[k].records)} :
                    ValidRecord(r) =>
                        \E i \in 1..Len(data) :
                            /\ data[i].uid = RecordKey(r)
                            /\ dir[k].company \in SeqToSet(data[i].excluded_by)
        /\ \A uid \in before :
            /\ (uid \in ListedKeys(dir) /\ uid \notin ReportedKeys(dir)) => ~DictHas(data, uid)
            /\ uid \in ReportedKeys(dir) => DictHas(data, uid)

\* the file of Bima, which lists both entities of the registry, could not be
\* read and the file of Apex, read after it, lists one: that one is kept and
\* the other is pruned
C17_Witness ==
    /\ pc = "select"
    /\ dir = <<SourceFile("Bima", <<R4, R1>>, 0), SourceFile("Apex", <<R1>>, NoFail)>>
    /\ before = {"SRIHOSPITAL_411001", "OMCLINIC_PUNE"}
    /\ DictKeys(data) = {"SRIHOSPITAL_411001"}
    /\ "Apex" \in SeqToSet(data[1].excluded_by)

\* C19 as claimed: when the run is interrupted in its geocoding loop, a final
\* save is made: the registry file is then complete and holds every entity
\* of the registry (but perhaps the one in flight) with the coordinates and
\* the accuracy reached, and no half-written temporary file is left.
C19_InterruptSaves ==
    [][(InGeocodingLoop /\ pc' = "killed") =>
        /\ outFile'.exists /\ outFile'.complete
        /\ \A i \in 1..Len(data) :
            (pending = <<>> \/ data[i].uid # Head(pending)) =>
                \E k \in 1..Len(outFile'.items) :
                    /\ RecordKey([name |-> outFile'.items[k].name,
                                  pin |-> outFile'.items[k].pincode,
                                  city |-> outFile'.items[k].city]) = data[i].uid
                    /\ outFile'.items[k].lat = data[i].lat
                    /\ outFile'.items[k].lng = data[i].lng
                    /\ outFile'.items[k].accuracy = data[i].accuracy
        /\ tempFile'.exists => tempFile'.complete]_vars

\* C20 as claimed: every outbound call of fetch_geocoding carries a timeout, so
\* no call waits for ever on a service that does not answer.
C20_NoCallBlocks ==
    pc # "blocked"

------------------------------------------------------------------------------
(* The claims about the update rule, the cascade and the commit *)

\* C22: when a source record maps to an existing entity whose accuracy is not
\* HIGH, the entity's address, city, state and postal code become the record's
\* and needs_update becomes true exactly when the record's trimmed address
\* differs from the stored trimmed address and is longer than 5 characters;
\* otherwise the text and needs_update are unchanged; either way the company
\* is among the entity's sources afterwards.
C22_UpdateRule ==
    [][(pc = "merge" /\ fi <= Len(dir) /\ pc' # "killed") =>
        LET rec == dir[fi].records[ri]
            uid == RecordKey(rec)
        IN  (ValidRecord(rec) /\ DictHas(data, uid) /\ DictGet(data, uid).accuracy # "HIGH") =>
                /\ DictHas(data', uid)
                /\ LET old == DictGet(data, uid)
                       new == DictGet(data', uid)
                       differs == Strip(rec.address) # Strip(old.address)
                       long == Len(Strip(rec.address)) > 5
                   IN  /\ (differs /\ long) =>
                            /\ new.address = rec.address
                            /\ new.city = rec.city
                            /\ new.state = rec.state
                            /\ new.pincode = rec.pin
                            /\ new.needs_update
                       /\ ~(differs /\ long) =>
                            /\ new.address = old.address
                            /\ new.city = old.city
                            /\ new.state = old.state
                            /\ new.pincode = old.pincode
                            /\ new.needs_update = old.needs_update
                       /\ SeqContains(new.excluded_by, dir[fi].company)]_vars

\* an entity located in an earlier run has taken the address of R3, with its
\* untrimmed city and pin, and is flagged; another, not HIGH, was listed with
\* the blank address of R2 and kept its own
C22_Witness ==
    /\ pc = "merge"
    /\ \E i \in 1..Len(data) :
        /\ data[i].address = R3.address
        /\ data[i].city = R3.city
        /\ data[i].pincode = R3.pin
        /\ data[i].lat # 0
        /\ data[i].accuracy \in {"LOW", "APPROXIMATE"}
        /\ data[i].needs_update

\* the positions of a run from load_existing_data up to deduplicate_data, the
\* checkpoints of the loop apart
BeforeDedup == {"merge", "select", "wait", "dedup"} \cup CallPositions

\* the entities loaded from OUTPUT_FILE with accuracy HIGH and coordinates set
\* (OUTPUT_FILE is not written between the load and the final save)
LoadedHigh ==
    LET loaded == load_existing_data(outFile) IN
    {loaded[i] : i \in {j \in 1..Len(loaded) :
                            /\ loaded[j].accuracy = "HIGH"
                            /\ loaded[j].lat # 0
                            /\ loaded[j].lng # 0}}

\* C30: an entity loaded from the registry file with accuracy HIGH and its
\* coordinates set is not among the records chosen for geocoding in that run,
\* whatever the source files list for its id, and while it is in the registry
\* its lat, lng and accuracy are as loaded all through ingestion and geocoding.
C30_HighNotRegeocoded ==
    (pc \in BeforeDedup \/ InGeocodingLoop) =>
        \A rec \in LoadedHigh :
            /\ ~SeqContains(pending, rec.uid)
            /\ DictHas(data, rec.uid) =>
                /\ DictGet(data, rec.uid).lat = rec.lat
                /\ DictGet(data, rec.uid).lng = rec.lng
                /\ DictGet(data, rec.uid).accuracy = "HIGH"
                /\ ~DictGet(data, rec.uid).needs_update

\* in a second run an outbound call is made for another entity while a loaded
\* HIGH entity is listed by a source file with another, longer address
C30_Witness ==
    /\ pc \in CallPositions
    /\ \E rec \in LoadedHigh :
        /\ DictHas(data, rec.uid)
        /\ Head(pending) # rec.uid
        /\ \E k \in 1..Len(dir) : \E r \in ReadRecords(dir[k]) :
            /\ RecordKey(r) = rec.uid
            /\ Strip(r.address) # Strip(rec.address)
            /\ Len(Strip(r.address)) > 5

\* C27: within one run the city is geocoded only for a key that is not in
\* city_coords_cache, the call leaves the key cached whether it succeeded or
\* failed, and the cache keeps every entry until the process ends: so at most
\* one outbound city call is made per key, and later lookups, for the search
\* bias or for the city fallback, are answered from the cache.
C27_CityLookedUpOnce ==
    [][/\ pc = "city" => ~Cached(city_coords_cache, CurrentKey)
       /\ (pc = "city" /\ pc' # "killed") =>
            /\ Cached(city_coords_cache', CurrentKey)
            /\ pc' \in CallPositions \ {"city"}
       /\ pc' \notin {"start", "killed"} =>
            \A k \in DOMAIN city_coords_cache :
                /\ Cached(city_coords_cache', k)
                /\ city_coords_cache'[k] = city_coords_cache[k]]_vars

\* a later entity of the same city starts its cascade at the place search: the
\* failed lookup made for an earlier entity is in the cache
C27_Witness ==
    /\ pc = "places"
    /\ api_hits >= 1
    /\ best_result = PendingResult
    /\ Cached(city_coords_cache, CurrentKey)
    /\ ~city_coords_cache[CurrentKey].found

\* the steps of the cascade that can yield a location for the entity
ResultSteps == {"places", "details", "addr1", "addr2"}

\* C23 as claimed: fetch_geocoding returns the city centre, APPROXIMATE, only
\* when no step before gave a coordinate, and when an address attempt answered
\* with a LOW coordinate and none with HIGH, it returns a LOW coordinate that
\* one of the attempts gave.
C23_LowBeatsCity ==
    [][(pc = "addr2" /\ pc' \notin {"blocked", "killed"}) =>
        /\ (reply'.returned /\ reply'.ret.accuracy = "APPROXIMATE") =>
                (best_result = PendingResult /\ reply'.answer = NoAnswer)
        /\ (/\ reply'.answer.accuracy # "HIGH"
            /\ "LOW" \in {reply'.answer.accuracy, best_result.accuracy}) =>
                /\ reply'.returned
                /\ reply'.ret.accuracy = "LOW"
                /\ reply'.ret \in {reply'.answer, best_result}]_vars

\* C24: as soon as a step of the cascade yields a HIGH result (the place
\* search, the place details, or either address attempt), fetch_geocoding
\* returns that step's coordinates with accuracy HIGH, and the entity leaves
\* the records to geocode: no further outbound call is made for it.
C24_HighEndsCascade ==
    [][(/\ pc \in ResultSteps
        /\ pc' \notin {"blocked", "killed"}
        /\ reply'.answer.accuracy = "HIGH") =>
            /\ reply'.returned
            /\ reply'.ret = reply'.answer
            /\ pending' = Tail(pending)
            /\ ~SeqContains(pending', Head(pending))
            /\ api_hits' = api_hits + 1]_vars

\* the place search or the place details answered HIGH for an earlier entity,
\* which holds the coordinates returned, and the calls are now for another
C24_Witness ==
    /\ pc \in CallPositions
    /\ reply.returned
    /\ reply.answer.accuracy = "HIGH"
    /\ reply.ret = reply.answer
    /\ \E i \in 1..Len(data) :
        /\ data[i].uid # Head(pending)
        /\ data[i].accuracy = "HIGH"
        /\ data[i].lat = reply.ret.lat
        /\ data[i].lng = reply.ret.lng

------------------------------------------------------------------------------
(* The claims about what deduplication keeps *)

\* the positions in d of the entities of accuracy HIGH or LOW that have the
\* trimmed postal code pin
LocatedWithPin(d, pin) ==
    {m \in 1..Len(d) : d[m].accuracy \in {"HIGH", "LOW"} /\ ExpectedPin(d[m].pincode) = pin}

\* a score strictly above 0.85, as the floats have it: a ratio of 0.65 with
\* the bonus of 0.2 is 0.8500000000000001
ScoreAbove85(score) ==
    \/ score.num * 100 > 85 * score.den
    \/ score.bonus /\ score.num * 100 = 85 * score.den

\* master m of d absorbs candidate c by the rule: its score against the
\* candidate's name is above 0.85 and no master of the postal code scores higher
AbsorbsByRule(d, m, c) ==
    LET pin == ExpectedPin(d[c].pincode)
        score(k) == _calculate_similarity(d[c].name, d[k].name)
    IN  /\ m \in LocatedWithPin(d, pin)
        /\ ScoreAbove85(score(m))
        /\ \A k \in LocatedWithPin(d, pin) : ~ScoreGreater(score(k), score(m))

\* C25: in the textual pass an entity is deleted only if its accuracy is
\* neither HIGH nor LOW, it has a postal code, and a HIGH or LOW entity of the
\* same postal code scores above 0.85 against its name, the highest score
\* among those of that postal code; that entity then holds its sources. An
\* entity of accuracy other than HIGH and LOW with no such master stays as it
\* was, and no HIGH or LOW entity is deleted.
C25_AbsorbRule ==
    pc = "dd_once" =>
        \A c \in 1..Len(dSpatial) :
            LET rec == dSpatial[c]
                pin == ExpectedPin(rec.pincode)
                masters == {m \in LocatedWithPin(dSpatial, pin) :
                                ScoreAbove85(_calculate_similarity(rec.name,
                                                                   dSpatial[m].name))}
            IN  /\ rec.accuracy \in {"HIGH", "LOW"} => DictHas(dOnce, rec.uid)
                /\ ~DictHas(dOnce, rec.uid) =>
                        /\ rec.accuracy \notin {"HIGH", "LOW"}
                        /\ Len(pin) >= 6
                        /\ \E m \in 1..Len(dSpatial) :
                            /\ AbsorbsByRule(dSpatial, m, c)
                            /\ DictHas(dOnce, dSpatial[m].uid)
                            /\ SeqToSet(rec.excluded_by)
                                   \subseteq SeqToSet(DictGet(dOnce, dSpatial[m].uid).excluded_by)
                /\ (rec.accuracy \notin {"HIGH", "LOW"} /\ masters = {}) =>
                        /\ DictHas(dOnce, rec.uid)
                        /\ DictGet(dOnce, rec.uid) = rec

\* 'Sanjeevani Hospital' is listed after two masters of its postal code that
\* both score above 0.85 and is absorbed by the second, which scores higher
C25_Witness ==
    /\ pc = "dd_once"
    /\ dReg = <<EB, EN, EC>>
    /\ dSpatial = dReg
    /\ Len(dOnce) = 2
    /\ DictGet(dOnce, EB.uid) = EB
    /\ DictGet(dOnce, EN.uid).excluded_by # EN.excluded_by

\* the sources of a registry
AllSources(d) == UNION {SeqToSet(d[i].excluded_by) : i \in 1..Len(d)}

\* the entities of before that are not in after hold no source that some one
\* entity of after does not hold
DeletedAreCovered(prior, after) ==
    \A i \in 1..Len(prior) :
        ~DictHas(after, prior[i].uid) =>
            \E j \in 1..Len(after) :
                SeqToSet(prior[i].excluded_by) \subseteq SeqToSet(after[j].excluded_by)

\* the entity that the spatial pass keeps of each group of entities ranked
\* above 0 that share a coordinate key is an entity of the group
GroupKeepsOne(prior, after) ==
    \A i \in 1..Len(prior) :
        (RankedResolved(prior[i]) /\ ~DictHas(after, prior[i].uid)) =>
            \E j \in 1..Len(prior) :
                /\ RankedResolved(prior[j])
                /\ SameCoordKey(prior[j], prior[i])
                /\ DictHas(after, prior[j].uid)
                /\ SeqToSet(prior[i].excluded_by)
                       \subseteq SeqToSet(DictGet(after, prior[j].uid).excluded_by)

\* C29: after deduplicate_data every entity deleted by either pass has all its
\* sources among those of one surviving entity; the primary of a spatial group
\* and the master of a textual merge are not deleted in the pass that merges
\* into them; and the registry as a whole has the same sources as before.
C29_NoSourceLost ==
    pc = "dd_once" =>
        /\ DeletedAreCovered(dReg, dOnce)
        /\ DeletedAreCovered(dReg, dSpatial)
        /\ DeletedAreCovered(dSpatial, dOnce)
        /\ GroupKeepsOne(dReg, dSpatial)
        /\ \A c \in 1..Len(dSpatial) :
            ~DictHas(dOnce, dSpatial[c].uid) =>
                \E m \in 1..Len(dSpatial) :
                    /\ m # c
                    /\ DictHas(dOnce, dSpatial[m].uid)
                    /\ SeqToSet(dSpatial[c].excluded_by)
                           \subseteq SeqToSet(DictGet(dOnce, dSpatial[m].uid).excluded_by)
        /\ AllSources(dSpatial) = AllSources(dReg)
        /\ AllSources(dOnce) = AllSources(dReg)

\* each pass deleted an entity whose only source the survivor did not have
C29_Witness ==
    /\ pc = "dd_once"
    /\ Len(dReg) = 3
    /\ Len(dSpatial) = 2
    /\ Len(dOnce) = 1
    /\ \A i \in 1..3 : Cardinality(SeqToSet(dReg[i].excluded_by)) = 1
    /\ SeqToSet(dOnce[1].excluded_by) = {"Apex", "Bima"}

------------------------------------------------------------------------------
(* The claims about the file written *)

\* the key recomputed from what is persisted of a record
ReloadKey(rec) == generate_unique_id(rec.name, rec.pincode, rec.city)

\* the final save of the run has written the registry to OUTPUT_FILE
Committed ==
    /\ pc = "done"
    /\ apiKey
    /\ is_final
    /\ outFile = FileContent(CleanList(data), TRUE)

\* C28 as claimed: once the final save has written the registry, every entity's
\* key recomputed from its persisted name, postal code and city is the id it
\* was held under, and loading the file gives the same ids, none lost.
C28_RoundTrip ==
    Committed =>
        /\ \A i \in 1..Len(data) : ReloadKey(data[i]) = data[i].uid
        /\ DictKeys(load_existing_data(outFile)) = DictKeys(data)
        /\ Len(load_existing_data(outFile)) = Len(data)

\* whether the trimmed postal code is one of six digits
ValidPin(item) == Len(ExpectedPin(item.pincode)) = 6 /\ IsDigitStr(ExpectedPin(item.pincode))

\* the name as the order takes it: trimmed, in lower case
OrderName(item) == StrLower(ExpectedPin(item.name))

\* item a may be written before item b
InOrder(a, b) ==
    \/ ValidPin(a) /\ ~ValidPin(b)
    \/ /\ ValidPin(a) = ValidPin(b)
       /\ \/ StrLess(ExpectedPin(a.pincode), ExpectedPin(b.pincode))
          \/ /\ ExpectedPin(a.pincode) = ExpectedPin(b.pincode)
             /\ StrLeq(OrderName(a), OrderName(b))

\* the registries that hold the entities of d in any order
Reorderings(d) ==
    {p \in [1..Len(d) -> SeqToSet(d)] : \A i, j \in 1..Len(d) : p[i] = p[j] => i = j}

\* C21 as claimed: the list written has the entities with a valid postal code
\* of six digits before all others, then by postal code, then by name, every
\* excluded_by list is in ascending order, and the list is the same whatever
\* the order in which the entities were inserted into the registry.
C21_OrderedWhateverInsertion ==
    pc = "sv_saved" =>
        LET items == tempFile.items IN
        /\ Len(items) = Len(dReg)
        /\ \A i, j \in 1..Len(items) : i < j => InOrder(items[i], items[j])
        /\ \A i \in 1..Len(items) :
            \A k \in 1..(Len(items[i].excluded_by) - 1) :
                StrLess(items[i].excluded_by[k], items[i].excluded_by[k + 1])
        /\ \A p \in Reorderings(dReg) : CleanList(p) = items

------------------------------------------------------------------------------
(* The bulk run: one run over a listing long enough for a checkpoint *)

BulkNames ==
    <<"Asha Clinic", "Bodhi Nursing Home", "Chetna Eye Centre", "Deenanath Hospital",
      "Ekta Maternity", "Fatima Dental", "Gokul Childrens", "Hira Ortho",
      "Indu Skin Care", "Jeevan Jyoti", "Kamal Heart Institute">>

BulkRecord(i) ==
    [name |-> BulkNames[i], address |-> "1 Main St", city |-> "Pune", state |-> "MH",
     pin |-> "411001"]

\* one file that lists more than SAVE_INTERVAL hospitals
BulkDir == <<SourceFile("Apex", [i \in 1..Len(BulkNames) |-> BulkRecord(i)], NoFail)>>

\* the first run of the pipeline, with the key, over the bulk listing
InitBulk ==
    /\ pc = "start"
    /\ IdleKey
    /\ IdleDedup
    /\ apiKey = TRUE
    /\ dir = BulkDir
    /\ runs = MaxRuns
    /\ outFile = NoFileContent
    /\ tempFile = NoFileContent
    /\ prevOut = NoFileContent
    /\ faults = 0
    /\ data = <<>>
    /\ fi = 1
    /\ ri = 1
    /\ active = {}
    /\ before = {}
    /\ pending = <<>>
    /\ best_result = PendingResult
    /\ api_hits = 0
    /\ places_api_enabled = TRUE
    /\ city_coords_cache = <<>>
    /\ called = FALSE
    /\ failed = {}
    /\ reply = Answered(NoAnswer)
    /\ is_final = FALSE

\* the call just made was answered without a location of the hospital
NoLocation == reply.answer = NoAnswer

\* fetch_geocoding while the place and address services locate no hospital:
\* each call of the cascade fails or comes back empty
QuietCall ==
    /\ GeoCity \/ GeoPlaces \/ GeoBB \/ GeoDetails \/ GeoAddr1 \/ GeoAddr2
    /\ NoLocation'

NextBulk ==
    \/ RunLoad
    \/ MergeRecord \/ MergePrune
    \/ SelectPending
    \/ QuietCall
    \/ DedupSpatial \/ DedupText
    \/ SaveOpen \/ SaveDump \/ SaveMove
    \/ Wait

SpecBulk == InitBulk /\ [][NextBulk]_vars

------------------------------------------------------------------------------
(* The claim about the order of the phases and the commit *)

\* the phase of run a position belongs to: 0 before load_existing_data,
\* 1 merge_sources, 2 the geocoding loop with its checkpoints,
\* 3 deduplicate_data, 4 the final save, 5 the end of the run
Phase(position, final) ==
    CASE position = "start" -> 0
      [] position \in {"merge", "select"} -> 1
      [] position \in CallPositions \cup {"blocked", "wait"} -> 2
      [] position \in {"save_open", "save_dump", "save_move"} /\ ~final -> 2
      [] position \in {"dedup", "dedup_text"} -> 3
      [] position \in {"save_open", "save_dump", "save_move"} /\ final -> 4
      [] OTHER -> 5

\* C26, as stated: a run with the key goes through load, ingest, geocode,
\* deduplicate and final save in that order and replaces OUTPUT_FILE exactly
\* once, by its final save; so at the end of every such run OUTPUT_FILE is the
\* list the final save made and TEMP_FILE is gone
C26_ReplacedOncePerRun ==
    pc = "done" /\ apiKey =>
        /\ outFile = FileContent(CleanList(data), TRUE)
        /\ tempFile = NoFileContent

\* C26, amended: the phases of a run with the key follow one another in the
\* order load, ingest, geocode, deduplicate, final save; OUTPUT_FILE changes
\* only in the move of the final save, which is entered only from the end of
\* deduplication and is followed by the end of the run, so at most once per
\* run; a move that does not fail puts there the list made from the
\* deduplicated registry; a checkpoint writes TEMP_FILE only
C26_CommitOrder ==
    [][apiKey /\ pc' \notin {"start", "killed"} =>
        /\ Phase(pc', is_final') >= Phase(pc, is_final)
        /\ Phase(pc', is_final') <= Phase(pc, is_final) + 1 \/ pc = "select"
        /\ is_final' /\ ~is_final => pc = "dedup_text"
        /\ outFile' # outFile => pc = "save_move" /\ is_final
        /\ pc = "save_move" =>
            /\ pc' = "done"
            /\ faults' = faults =>
                outFile' = FileContent(CleanList(data), TRUE) /\ tempFile' = NoFileContent
        /\ ~is_final /\ pc \in {"save_open", "save_dump"} =>
            /\ pc' # "save_move"
            /\ outFile' = outFile
            /\ api_hits % SAVE_INTERVAL = 0 /\ api_hits > 0]_vars

\* a run that took a checkpoint has ended: its final save replaced OUTPUT_FILE,
\* no step having failed
C26_Witness ==
    /\ pc = "done"
    /\ apiKey
    /\ api_hits > SAVE_INTERVAL
    /\ faults = 0
    /\ outFile = FileContent(CleanList(data), TRUE)
    /\ tempFile = NoFileContent
    /\ Len(data) > 1

====
